---- MODULE Spec2Model ----
(***************************************************************************)
(* Model of the medical GraphRAG assistant:                                *)
(*   - the agentic loop of ChatCLI.query          (src/src/cli/chat.py)    *)
(*   - the MIMIC-CXR ingestion pipeline   (src/scripts/ingest_mimic_cxr.py)*)
(* ChatSpec is the specification of the chat loop, Spec the one of the     *)
(* ingestion pipeline over a small source directory and LargeSpec the one  *)
(* of the ingestion pipeline over a source of more than CHECKPOINT_INTERVAL*)
(* images.                                                                 *)
(* The other components have a specification each: StartupSpec (start of   *)
(* an ingestion run), GetEmbedderSpec, EntitiesSpec, RelationshipsSpec,    *)
(* PopulateSpec and ConcurrentSpec (scripts/populate_graphrag_tables.py),  *)
(* MappingsSpec, EncounterSpec and ImportSpec                              *)
(* (src/setup/import_radiology_fhir.py), RecallSpec (memory recall of      *)
(* ChatCLI.query), TraceSpec (tool trace of ChatCLI.query), HealthSpec     *)
(* (src/cli/__main__.py), AppSpec (Tutorial/App/app.py), FindSpec and      *)
(* ExtractSpec (discovery of ingest_mimic_cxr.py), LimitedSpec and         *)
(* CheckpointRunsSpec (repeated ingestion runs with a limit) and           *)
(* RepopulateSpec (populate_data called again).                            *)
(***************************************************************************)
EXTENDS Integers, Sequences, FiniteSets, TLC

VARIABLES
    \* ---- ChatCLI (chat.py) ----
    messages,       \* self.messages: the running message list
    chatPc,         \* position of query: "init" | "llm" | "tools" | "done" | "raised"
    i,              \* loop variable of `for i in range(max_iterations)`
    response,       \* the last LLM response: [stop, calls]
    tool_results,   \* the tool_results list of the current iteration
    blockIdx,       \* index of the next toolUse block of the response
    llmCalls,       \* number of _call_llm invocations of this query
    toolIters,      \* number of iterations in which call_tool was invoked
    emitted,        \* what query printed at its end: "none" | "assistant" | "max_iterations"
    firstTerminal,  \* number of the first LLM call whose response asked for no tool (0: none yet)
    raisedBy,       \* which call raised out of query: "none" | "llm" | "call_tool" | "json_loads"
    \* ---- ingestion: what outlives a run (ingest_mimic_cxr.py) ----
    files,          \* the .dcm files under the source root, in rglob order, by path metadata
    table,          \* VectorSearch.MIMICCXRImages: image id -> [n: rows held, fhir: FHIRResourceID,
                    \*   subject_id: SubjectID, study_id: StudyID]
    ckptFile,       \* <source>/.ingest_checkpoint.pkl: [exists, ids]
    fhirPatients,   \* subjects that have a Patient on the FHIR server
    fhirStudies,    \* study ids that have an ImagingStudy on the FHIR server
    runs,           \* number of ingest_mimic_cxr runs started
    prevEnd,        \* how the previous run ended: "none" | "completed" | "interrupted" | "failed"
    errBudget,      \* failures still to come: of an INSERT (other than a key violation), of a FHIR request
    failRows,       \* the rows of a batch whose INSERT can fail so
    rowsAtInterrupt,\* the image ids that had a row when the previous run was interrupted
    lastSave,       \* the last save_checkpoint call: [before: the file as it was, ids: the set given]
    schema,         \* the objects of the VectorSearch schema that exist in the database
    putLog,         \* study id -> [n: ImagingStudy PUTs issued, onExisting: those issued while it existed]
    \* ---- ingestion: the locals of the running ingest_mimic_cxr ----
    pc,             \* "idle" | "embedder" | "connect" | "ensure" | "begin" | "failed"
                    \*   | "all_done" | "batch" | "fhir" | "ckpt" | "final"
    batch_size, skip_existing, dry_run,
    fhir_adapter,   \* "none" (None) | "demo" (adapter.demo_mode) | "live"
    embedder,       \* "unset" | "live" (a healthy NVCLIPEmbeddings) | "none" (None: mock embeddings)
    embedderLog,    \* the attempts of get_embedder_with_retry: [outcome, slept] each
    connLog,        \* the attempts of get_connection_with_retry: [outcome, slept] each
    files_to_process, batch_start, processed_ids,
    total_success, total_error, fhir_created, fhir_skipped,
    success, errors,\* the pair returned by the last ingest_batch
    commits,        \* number of conn.commit() calls made by ingest_batch in this run
    fhirIdx,        \* index in batch_data of the next image of the FHIR loop
    \* ---- ingestion: what this run has done (observation only) ----
    loaded_ids,     \* processed_ids as it was when the batches began
    saved,          \* save_checkpoint has been called in this run
    allPresent,     \* every discovered image had a row when the run began
    newRows,        \* rows this run has added to the table
    erroredPos,     \* positions in files_to_process whose INSERT raised
    fhirOps,        \* <<position, operation>> pairs of the FHIR loop
    skippedMissing, \* positions in files that have no row and were filtered out
    \* ---- the embedder singleton (embedder_singleton.py) ----
    global_embedder,\* the module global _embedder: 0 (None) or the number of an instance
    tpc,            \* thread -> position in get_embedder: "idle" | "construct" | "assign" | "return"
    built,          \* thread -> the instance its constructor call returned (0: none)
    constructions,  \* number of NVCLIPEmbeddings instances constructed so far
    calls,          \* thread -> number of get_embedder calls that have returned
    returned,       \* the values returned by the calls so far (0: None)
    \* ---- RAG.Entities (populate_graphrag_tables.py) ----
    entities,       \* the rows, in insertion order: [EntityID, EntityText, EntityType]
    identity,       \* the last value of the AUTO_INCREMENT counter of EntityID
    entityCalls,    \* number of insert_entity calls made
    lastCall,       \* the last insert_entity call: [text, type, before: the rows as they were,
                    \*   result: the id returned]
    \* ---- RAG.EntityRelationships (populate_graphrag_tables.py) ----
    relationships,  \* the rows, in insertion order: [RelationshipID, SourceEntityID, TargetEntityID, RelationshipType]
    relIdentity,    \* the last value of the AUTO_INCREMENT counter of RelationshipID
    relCalls,       \* number of insert_relationship calls made
    lastRelCall,    \* the last insert_relationship call: [source, target, type, before, result]
    \* ---- VectorSearch.PatientImageMapping and import_subject_mappings (import_radiology_fhir.py) ----
    mappings,       \* the rows of the table: [MIMICSubjectID, FHIRPatientID, MatchType]
    mapPc,          \* "idle" | "loop": position of import_subject_mappings
    subjects,       \* the subjects argument of the running import_subject_mappings
    fhir_patients,  \* the ids of the fhir_patients argument
    create_synthea, \* the create_synthea argument
    mapDryRun,      \* the dry_run argument
    used_patient_ids,\* the local set used_patient_ids
    mapIdx,         \* index in subjects of the next subject of the loop
    mapRuns,        \* number of import_subject_mappings calls started
    \* ---- encounter matching of the FHIR adapter ----
    encounters,     \* the Encounters of the patient on the FHIR server: [id, start, end], times in hours
    study_datetime, \* the study_date argument, in hours
    matched,        \* the lookup: [called, id: the id returned, <<>> for none]
    \* ---- create_imaging_studies_for_subject (import_radiology_fhir.py) ----
    lastImport,     \* the last call: [dry_run, studies: study id -> [lookup, put, encounter_id]]
    \* ---- populate_data (populate_graphrag_tables.py) ----
    popPc,          \* "idle" | "condition" | "items" | "comorbidities" | "done"
    condIdx,        \* index in CONDITIONS_DATA of the condition of the outer loop
    itemIdx,        \* index of the next related entity of the condition, or of the next comorbidity
    entity_ids,     \* the local dict entity_ids: entity text -> id
    condition_id,   \* the local condition_id
    entities_added, \* the local counter entities_added
    relationships_added,\* the local counter relationships_added
    \* ---- VectorMemory and the recall of ChatCLI.query (chat.py) ----
    memory_store,   \* the items of self.memory: [text, similarity to the query, in hundredths]
    memories,       \* the local memories of query: the list recall returned
    \* ---- check-health (src/cli/__main__.py) ----
    healthPc,       \* position of check_health_command
    smoke_test_arg, \* args.smoke_test
    smoke_raises,   \* the smoke search raises
    check_results,  \* statuses returned by run_all_checks
    checks_raise,   \* run_all_checks raises
    smoke_test_result,\* status of smoke_test_result, "none" for None
    report_status,  \* the 'status' field of the printed report
    exit_code,      \* argument of sys.exit, -1 before the exit
    \* ---- the chat HTTP front-end (Tutorial/App/app.py) ----
    flask_session,  \* per client, the signed cookie: [sid, patient_id]
    bot_instances,  \* the global dict sid -> RAGChatbot, NoBot where absent
    remote_addr,    \* per client, request.remote_addr ("none" for None)
    headersSent,    \* per client, the X-Session-Id values it has sent
    replyMemory,    \* per client, whose turns were in the memory behind its last reply
    appRequests,    \* number of requests handled
    \* ---- two populate runs on the same tables (populate_graphrag_tables.py) ----
    runPc,          \* per run, its position inside insert_entity / insert_relationship
    runArgs,        \* per run, the arguments of the call in progress
    runFound,       \* per run, whether its SELECT found a row
    concurrentCalls,\* number of calls started by the runs
    \* ---- the tool trace of ChatCLI.query (chat.py) ----
    verbose,        \* the verbose argument of query
    trace,          \* the [TRACE] entries printed in the current iteration:
                    \*   [iteration, name, length]
    \* ---- find_dicom_files (ingest_mimic_cxr.py) ----
    tree,           \* the files under base_path, in the order rglob walks them
    limit_arg,      \* the limit argument, NoLimit for None
    skip_large,     \* the skip_large argument
    dicom_files,    \* the list returned, <<>> before the call
    skipped_large,  \* the skipped_large counter
    findPc,         \* "idle" | "called" | "returned"
    \* ---- extract_metadata_from_path (ingest_mimic_cxr.py) ----
    dcm_path,       \* dcm_path.parts: the components of the path, each [text, first, len]
    metadata,       \* the dictionary returned, NoMetadata before the call
    \* ---- repeated runs with a limit (ingest_mimic_cxr.py) ----
    image_rows,     \* the image ids that have a row in VectorSearch.MIMICCXRImages
    checkpoint_ids, \* the image ids in .ingest_checkpoint.pkl
    lastRun,        \* the last run: [processed, missing], the images it processed and the images without a row before it
    \* ---- populate_data called again (populate_graphrag_tables.py) ----
    repopulations,  \* number of further populate_data calls on the populated graph
    rowsAtStart     \* the numbers of rows when the current call began: [entities, relationships]

chatVars == <<messages, chatPc, i, response, tool_results, blockIdx, llmCalls,
              toolIters, emitted, firstTerminal, raisedBy>>

storeVars == <<files, table, ckptFile, fhirPatients, fhirStudies, runs, prevEnd, errBudget,
               failRows, rowsAtInterrupt, lastSave, putLog, schema>>

runVars == <<pc, batch_size, skip_existing, dry_run, fhir_adapter, embedder, embedderLog,
             connLog, files_to_process,
             batch_start, processed_ids, total_success, total_error, fhir_created,
             fhir_skipped, success, errors, commits, fhirIdx>>

logVars == <<loaded_ids, saved, allPresent, newRows, erroredPos, fhirOps, skippedMissing>>

ingestVars == <<storeVars, runVars, logVars>>

singletonVars == <<global_embedder, tpc, built, constructions, calls, returned>>

entityVars == <<entities, identity, entityCalls, lastCall>>

relationVars == <<relationships, relIdentity, relCalls, lastRelCall>>

mappingVars == <<mappings, mapPc, subjects, fhir_patients, create_synthea, mapDryRun, used_patient_ids, mapIdx, mapRuns>>

encounterVars == <<encounters, study_datetime, matched>>

importVars == <<lastImport>>

populateVars == <<popPc, condIdx, itemIdx, entity_ids, condition_id, entities_added, relationships_added>>

memoryVars == <<memory_store, memories>>

healthVars == <<healthPc, smoke_test_arg, smoke_raises, check_results, checks_raise, smoke_test_result, report_status, exit_code>>

appVars == <<flask_session, bot_instances, remote_addr, headersSent, replyMemory, appRequests>>

concurrentVars == <<runPc, runArgs, runFound, concurrentCalls>>

traceVars == <<verbose, trace>>

findVars == <<tree, limit_arg, skip_large, dicom_files, skipped_large, findPc>>

extractVars == <<dcm_path, metadata>>

limitedVars == <<image_rows, checkpoint_ids, lastRun>>

repopulateVars == <<repopulations, rowsAtStart>>

libVars == <<singletonVars, entityVars, relationVars, mappingVars, encounterVars, importVars, populateVars, memoryVars, healthVars, appVars, concurrentVars, traceVars, findVars, extractVars, limitedVars, repopulateVars>>

vars == <<chatVars, ingestVars, libVars>>

----------------------------------------------------------------------------
(* ChatCLI.query                                                           *)

\* chat.py:196
max_iterations == 10

\* The toolUse blocks of a tool_use response, by toolUseId, in the order returned.
ToolCallLists == {<<1>>, <<2, 1>>}

\* The responses _call_llm can return: _call_openai_compatible maps every
\* response to end_turn or tool_use; _call_bedrock passes the Converse stopReason
\* through, which can also be max_tokens (or stop_sequence, content_filtered, ...).
Responses ==
    {[stop |-> "end_turn", calls |-> <<>>], [stop |-> "max_tokens", calls |-> <<>>]}
    \cup {[stop |-> "tool_use", calls |-> c] : c \in ToolCallLists}

NoResponse == [stop |-> "none", calls |-> <<>>]

\* What one `await call_tool(...)` followed by json.loads(result[0].text) does.
ToolOutcomes == {"ok", "call_tool_raises", "undecodable"}

\* chat.py:193-194: current_query = memory_context + user_query; the content is
\* the list of its lines
UserPrompt(memory_context) ==
    [role |-> "user", kind |-> "prompt", ids |-> <<>>,
     content |-> memory_context \o <<"user_query">>]

\* chat.py:181: top_k=3
RecallTopK == 3

\* the similarity threshold of chat.py:186, 0.3, in hundredths
SimilarityThreshold == 30

\* items self.memory may hold, with their similarity to the query
CandidateMemories ==
    { [text |-> "m10", similarity |-> 10], [text |-> "m29", similarity |-> 29],
      [text |-> "m30", similarity |-> 30], [text |-> "m31", similarity |-> 31],
      [text |-> "m50", similarity |-> 50], [text |-> "m70", similarity |-> 70],
      [text |-> "m90", similarity |-> 90] }

MemoryIdle ==
    /\ memory_store = {}
    /\ memories = <<>>

\* VectorMemory.recall(query, top_k): the top_k most similar items, sorted by
\* similarity, descending
RECURSIVE Recall(_, _)
Recall(store, top_k) ==
    IF store = {} \/ top_k = 0 THEN <<>>
    ELSE LET best == CHOOSE m \in store : \A o \in store : o.similarity <= m.similarity
         IN  <<best>> \o Recall(store \ {best}, top_k - 1)

\* faulty variant of the memory block: every recalled item is listed
MemoryContextUnfiltered(recalled) ==
    IF recalled = <<>> THEN <<>>
    ELSE <<"[RECALLED MEMORY]">> \o [k \in 1..Len(recalled) |-> recalled[k].text]
         \o <<"[END MEMORY]">>

\* chat.py:182-188: the lines of memory_context
MemoryContext(recalled) ==
    IF recalled = <<>> THEN <<>>
    ELSE LET kept == SelectSeq(recalled, LAMBDA m : m.similarity > SimilarityThreshold)
         IN  <<"[RECALLED MEMORY]">> \o [k \in 1..Len(kept) |-> kept[k].text]
             \o <<"[END MEMORY]">>

\* chat.py:255
AssistantMessage(content) == [role |-> "assistant", kind |-> "content", ids |-> content]

\* chat.py:256
ToolResultsMessage(results) == [role |-> "user", kind |-> "tool_results", ids |-> results]

\* chat.py:70-71: the longest result text printed as it is
TraceLimit == 500

\* the length of "... (truncated)", chat.py:71
TruncationSuffixLength == 15

\* the length of str(result_data) of the tool behind each toolUseId
ResultLength(id) == IF id = 1 THEN TraceLimit ELSE TraceLimit + 1

\* chat.py:69-72: the length of the result text _print_trace prints
PrintedLength(n) == IF n > TraceLimit THEN TraceLimit + TruncationSuffixLength ELSE n

\* query(user_query, verbose=True): the default arguments, nothing printed yet
TraceIdle ==
    /\ verbose = TRUE
    /\ trace = <<>>

\* faulty variant of AppendResult: the result is put in front of the list
PrependResult(results, id) == <<id>> \o results

\* chat.py:248-251: tool_results.append({"toolUseId": t_id, ...})
AppendResult(results, id) == Append(results, id)

\* faulty variant of LoopContinues: the loop runs once more
LoopContinuesOffByOne(n) == n <= max_iterations

\* chat.py:197: for i in range(max_iterations)
LoopContinues(n) == n < max_iterations

ChatInit ==
    /\ messages = <<>>
    /\ chatPc = "init"
    /\ i = 0
    /\ response = NoResponse
    /\ tool_results = <<>>
    /\ blockIdx = 1
    /\ llmCalls = 0
    /\ toolIters = 0
    /\ emitted = "none"
    /\ firstTerminal = 0
    /\ raisedBy = "none"

\* chat.py:180-196: the memories are recalled, the user prompt is appended with
\* the memory block in front and the loop starts
QueryStart ==
    /\ UNCHANGED <<ingestVars, singletonVars, entityVars, relationVars, mappingVars, encounterVars, importVars, populateVars, healthVars, appVars, concurrentVars, traceVars, findVars, extractVars, limitedVars, repopulateVars>>
    /\ chatPc = "init"
    /\ memories' = Recall(memory_store, RecallTopK)
    /\ messages' = Append(messages, UserPrompt(MemoryContext(memories')))
    /\ UNCHANGED memory_store
    /\ i' = 0
    /\ chatPc' = "llm"
    /\ UNCHANGED <<response, tool_results, blockIdx, llmCalls, toolIters, emitted,
                   firstTerminal, raisedBy>>

\* chat.py:212-232: one LLM call and the dispatch on its stop reason
CallLLM ==
    /\ UNCHANGED <<ingestVars, singletonVars, entityVars, relationVars, mappingVars,
                   encounterVars, importVars, populateVars, memoryVars, healthVars,
                   appVars, concurrentVars, findVars, extractVars, limitedVars, repopulateVars, verbose>>
    /\ chatPc = "llm"
    /\ LoopContinues(i)
    /\ \E resp \in Responses :
        /\ response' = resp
        /\ llmCalls' = llmCalls + 1
        /\ firstTerminal' = IF firstTerminal = 0 /\ resp.stop # "tool_use"
                            THEN llmCalls + 1 ELSE firstTerminal
        /\ IF resp.stop = "end_turn"
           THEN /\ emitted' = "assistant"
                /\ chatPc' = "done"
                /\ UNCHANGED <<i, tool_results, blockIdx, trace>>
           ELSE IF resp.stop = "tool_use"
           THEN /\ tool_results' = <<>>
                /\ trace' = <<>>
                /\ blockIdx' = 1
                /\ chatPc' = "tools"
                /\ UNCHANGED <<i, emitted>>
           ELSE /\ i' = i + 1
                /\ UNCHANGED <<chatPc, emitted, tool_results, blockIdx, trace>>
    /\ UNCHANGED <<messages, toolIters, raisedBy>>

\* chat.py:212: _call_llm raises (chat.py:81, 172, or the provider client)
LLMRaises ==
    /\ UNCHANGED <<ingestVars, libVars>>
    /\ chatPc = "llm"
    /\ LoopContinues(i)
    /\ llmCalls' = llmCalls + 1
    /\ chatPc' = "raised"
    /\ raisedBy' = "llm"
    /\ UNCHANGED <<messages, i, response, tool_results, blockIdx, toolIters, emitted,
                   firstTerminal>>

\* chat.py:234-251: one toolUse block: call_tool, json.loads, tool_results.append
ExecuteTool ==
    /\ UNCHANGED <<ingestVars, singletonVars, entityVars, relationVars, mappingVars,
                   encounterVars, importVars, populateVars, memoryVars, healthVars,
                   appVars, concurrentVars, findVars, extractVars, limitedVars, repopulateVars, verbose>>
    /\ chatPc = "tools"
    /\ blockIdx <= Len(response.calls)
    /\ toolIters' = IF blockIdx = 1 THEN toolIters + 1 ELSE toolIters
    /\ \E outcome \in ToolOutcomes :
        IF outcome = "ok"
        THEN /\ trace' = IF verbose
                         THEN Append(trace,
                                     [iteration |-> i + 1, name |-> response.calls[blockIdx],
                                      length |-> PrintedLength(ResultLength(response.calls[blockIdx]))])
                         ELSE trace
             /\ tool_results' = AppendResult(tool_results, response.calls[blockIdx])
             /\ blockIdx' = blockIdx + 1
             /\ UNCHANGED <<chatPc, raisedBy>>
        ELSE /\ chatPc' = "raised"
             /\ raisedBy' = IF outcome = "call_tool_raises" THEN "call_tool" ELSE "json_loads"
             /\ UNCHANGED <<tool_results, blockIdx, trace>>
    /\ UNCHANGED <<messages, i, response, llmCalls, emitted, firstTerminal>>

\* faulty variant of AppendToolResults: the list is replaced by the two messages
ReplaceByToolResults ==
    /\ UNCHANGED <<ingestVars, libVars>>
    /\ chatPc = "tools"
    /\ blockIdx > Len(response.calls)
    /\ messages' = <<AssistantMessage(response.calls), ToolResultsMessage(tool_results)>>
    /\ i' = i + 1
    /\ chatPc' = "llm"
    /\ UNCHANGED <<response, tool_results, blockIdx, llmCalls, toolIters, emitted,
                   firstTerminal, raisedBy>>

\* chat.py:253-256: the assistant content and the tool results are appended
AppendToolResults ==
    /\ UNCHANGED <<ingestVars, libVars>>
    /\ chatPc = "tools"
    /\ blockIdx > Len(response.calls)
    /\ messages' = messages \o <<AssistantMessage(response.calls),
                                 ToolResultsMessage(tool_results)>>
    /\ i' = i + 1
    /\ chatPc' = "llm"
    /\ UNCHANGED <<response, tool_results, blockIdx, llmCalls, toolIters, emitted,
                   firstTerminal, raisedBy>>

\* chat.py:258: the loop is exhausted
ReachedMaximumIterations ==
    /\ UNCHANGED <<ingestVars, libVars>>
    /\ chatPc = "llm"
    /\ ~LoopContinues(i)
    /\ emitted' = "max_iterations"
    /\ chatPc' = "done"
    /\ UNCHANGED <<messages, i, response, tool_results, blockIdx, llmCalls, toolIters,
                   firstTerminal, raisedBy>>

ChatNext ==
    \/ QueryStart
    \/ CallLLM
    \/ LLMRaises
    \/ ExecuteTool
    \/ AppendToolResults
    \/ ReachedMaximumIterations


----------------------------------------------------------------------------
(* The ingestion pipeline: ingest_mimic_cxr.py                             *)

\* ingest_mimic_cxr.py:65
CHECKPOINT_INTERVAL == 100

\* Bounds of the model
MaxFiles == 3       \* files of a small source directory
MaxRuns == 2        \* runs of ingest_mimic_cxr, one after the other
MaxErrors == 1      \* INSERTs (key violations apart) and FHIR requests that fail
LargeFiles == 129   \* files of the large source directory
LargeBatch == 50    \* the batch size tried on it beside the default

\* ingest_mimic_cxr.py:66
MAX_RETRIES == 3

\* ingest_mimic_cxr.py:67
RETRY_BASE_DELAY == 2

\* ingest_mimic_cxr.py:68
FHIR_RETRY_MAX == 3

\* ingest_mimic_cxr.py:595: batch_size: int = 32
DefaultBatchSize == 32

None == 0

\* extract_metadata_from_path of the k-th file of the layout of scenario 1:
\* files/p10/p10000032/s50000001/{img_a,img_b}.dcm, files/p11/p11000100/s50000099/img_c.dcm
ScenarioFile(k) ==
    IF k <= 2 THEN [image_id |-> k, subject_id |-> 1, study_id |-> 1]
              ELSE [image_id |-> k, subject_id |-> 2, study_id |-> 2]

\* a file with the stem of the first one in another study directory
SameStemFile == [image_id |-> 1, subject_id |-> 2, study_id |-> 2]

SmallSources ==
    {[k \in 1..n |-> ScenarioFile(k)] : n \in 1..MaxFiles}
    \cup {<<ScenarioFile(1), ScenarioFile(2), SameStemFile>>}

LargeSource == [k \in 1..LargeFiles |-> [image_id |-> k, subject_id |-> 1, study_id |-> 1]]

IdsOf(fs) == {fs[k].image_id : k \in DOMAIN fs}

SubjectsOf(fs) == {fs[k].subject_id : k \in DOMAIN fs}

StudiesOf(fs) == {fs[k].study_id : k \in DOMAIN fs}

\* adapter.put_resource(resource) is called for study st, which exists or not
LogPut(log, st, exists) ==
    [log EXCEPT ![st] = [n |-> @.n + 1,
                         onExisting |-> @.onExisting + (IF exists THEN 1 ELSE 0)]]

Min(a, b) == IF a < b THEN a ELSE b

NoRow == [n |-> 0, fhir |-> None, subject_id |-> None, study_id |-> None]

NoFile == [exists |-> FALSE, ids |-> {}, torn |-> FALSE]

\* ingest_mimic_cxr.py:672-674: SELECT ImageID FROM VectorSearch.MIMICCXRImages
ExistingIds(tbl) == {id \in DOMAIN tbl : tbl[id].n > 0}

\* load_checkpoint: pickle.load raises on a file that holds no whole pickle, the
\* exception is caught and set() is returned
LoadCheckpoint(file) == IF file.exists /\ ~file.torn THEN file.ids ELSE {}

\* save_checkpoint, run to its end: open(checkpoint_path, 'wb') and pickle.dump
SaveCheckpoint(ids) == [exists |-> TRUE, ids |-> ids, torn |-> FALSE]

\* save_checkpoint, stopped after open(checkpoint_path, 'wb') has truncated the
\* file and before pickle.dump has written the whole pickle
TruncatedFile == [exists |-> TRUE, ids |-> {}, torn |-> TRUE]

\* faulty variant of the filter: the checkpoint set is not excluded
FilesToProcessTableOnly(fs, se, existing, processed) ==
    SelectSeq(fs, LAMBDA f : ~(se /\ f.image_id \in existing))

\* ingest_mimic_cxr.py:678-687: the files that are not filtered out
FilesToProcess(fs, se, existing, processed) ==
    SelectSeq(fs, LAMBDA f : ~(se /\ (f.image_id \in existing \/ f.image_id \in processed)))

\* faulty variant of batch_embed_texts: a text whose embedding failed gets no vector
BatchEmbedTextsDropFailed(emb, texts, failed) ==
    LET marked == [k \in DOMAIN texts |-> IF k \in failed THEN "none" ELSE "vector"]
    IN  SelectSeq(marked, LAMBDA e : e # "none")

\* batch_embed_texts: without an embedder one zero vector per text; with one, one
\* vector per text, a zero vector for a text whose embed_text raised
BatchEmbedTexts(emb, texts, failed) ==
    IF emb = "none" THEN [k \in DOMAIN texts |-> "zeros"]
    ELSE [k \in DOMAIN texts |-> IF k \in failed THEN "zeros" ELSE "vector"]

\* faulty variant of the table: ImageID is no primary key
NoPrimaryKey(held) == FALSE

\* ingest_mimic_cxr.py:462: ImageID VARCHAR(128) NOT NULL PRIMARY KEY: an INSERT
\* raises when the table already holds `held` > 0 rows with its ImageID
PrimaryKeyViolated(held) == held > 0

\* ingest_batch, lines 555-585, not dry-run: the rows of zip(batch, embeddings)
\* in order; `failing` are the rows whose INSERT raises for another reason than
\* the primary key. inserted[k]: the INSERT of row k did not raise; it sees the
\* rows of the table and the rows of its ImageID inserted before it in the batch.
InsertRows(tbl, batch, nrows, failing) ==
    LET inserted[k \in 1..nrows] ==
            LET id == batch[k].image_id
                before == {j \in 1..(k - 1) : batch[j].image_id = id /\ inserted[j]}
            IN  k \notin failing /\ ~PrimaryKeyViolated(tbl[id].n + Cardinality(before))
        ok == {k \in 1..nrows : inserted[k]}
        okIds == {batch[k].image_id : k \in ok}
        first(id) == CHOOSE k \in ok :
                        /\ batch[k].image_id = id
                        /\ \A j \in ok : batch[j].image_id = id => k <= j
    IN  [table |-> [id \in DOMAIN tbl |->
                       IF id \in okIds
                       THEN [n |-> tbl[id].n + Cardinality({k \in ok : batch[k].image_id = id}),
                             fhir |-> tbl[id].fhir,
                             subject_id |-> IF tbl[id].n > 0 THEN tbl[id].subject_id
                                            ELSE batch[first(id)].subject_id,
                             study_id |-> IF tbl[id].n > 0 THEN tbl[id].study_id
                                          ELSE batch[first(id)].study_id]
                       ELSE tbl[id]],
         success |-> Cardinality(ok),
         errors |-> nrows - Cardinality(ok),
         errored |-> (1..nrows) \ ok]

\* ingest_batch: (table after the commit, success_count, error_count, rows that raised)
IngestBatchResult(tbl, batch, embeddings, dry, failing) ==
    LET nrows == Min(Len(batch), Len(embeddings))
    IN  IF dry
        THEN [table |-> tbl, success |-> nrows, errors |-> 0, errored |-> {}]
        ELSE InsertRows(tbl, batch, nrows, failing)

\* ensure_vectorsearch_table_exists: the indexes it creates, lines 479-502
IndexNames == {"idx_mimiccxr_subject", "idx_mimiccxr_study", "idx_mimiccxr_view",
               "idx_mimiccxr_fhir", "idx_mimiccxr_hnsw"}

\* the schema, the table and its indexes
SchemaObjects == {"VectorSearch", "MIMICCXRImages"} \cup IndexNames

\* the statements of ensure_vectorsearch_table_exists that can raise: the query
\* of INFORMATION_SCHEMA.TABLES and the CREATE of each object
EnsureStatements == {"INFORMATION_SCHEMA"} \cup SchemaObjects

\* faulty variant of ensure_vectorsearch_table_exists: no early return when the
\* table exists
EnsureCreatesWhatIsMissing(objects, raising) ==
    IF "INFORMATION_SCHEMA" \in raising THEN objects
    ELSE objects \cup (SchemaObjects \ raising)

\* ensure_vectorsearch_table_exists: the objects that exist after the call;
\* `raising` are the statements that raise
EnsureVectorSearchTableExists(objects, raising) ==
    IF "INFORMATION_SCHEMA" \in raising THEN objects
    ELSE IF "MIMICCXRImages" \in objects THEN objects
    ELSE LET withSchema == IF "VectorSearch" \in raising THEN objects
                           ELSE objects \cup {"VectorSearch"}
         IN  IF "MIMICCXRImages" \in raising THEN withSchema
             ELSE withSchema \cup {"MIMICCXRImages"} \cup (IndexNames \ raising)

\* faulty variant of the delay: the same delay before every retry
RetryDelayConstant(attempt) == RETRY_BASE_DELAY

\* lines 96 and 251: delay = RETRY_BASE_DELAY ** (attempt + 1)
RetryDelay(attempt) == RETRY_BASE_DELAY ^ (attempt + 1)

\* the sets of at most n elements of S
RECURSIVE UpTo(_, _)
UpTo(S, n) ==
    IF n = 0 THEN {{}}
    ELSE LET smaller == UpTo(S, n - 1)
         IN  smaller \cup {s \cup {x} : s \in smaller, x \in S}

\* ingest_mimic_cxr.py:704: batch_end
BatchEnd == Min(batch_start + batch_size, Len(files_to_process))

\* ingest_mimic_cxr.py:705: batch_files
BatchFiles == SubSeq(files_to_process, batch_start + 1, BatchEnd)

\* ingest_mimic_cxr.py:755: if (batch_end) % CHECKPOINT_INTERVAL == 0
CheckpointDue(batch_end) == batch_end % CHECKPOINT_INTERVAL = 0

\* faulty variant of AddProcessed: the set is started again for every batch
BatchIdsOnly(processed, ids) == ids

\* ingest_mimic_cxr.py:752-753: processed_ids.add(path_meta['image_id'])
AddProcessed(processed, ids) == processed \cup ids

RunLocalsReset ==
    /\ pc' = "idle"
    /\ batch_size' = 0
    /\ skip_existing' = FALSE
    /\ dry_run' = FALSE
    /\ fhir_adapter' = "none"
    /\ embedder' = "unset"
    /\ embedderLog' = <<>>
    /\ connLog' = <<>>
    /\ files_to_process' = <<>>
    /\ batch_start' = 0
    /\ processed_ids' = {}
    /\ total_success' = 0
    /\ total_error' = 0
    /\ fhir_created' = 0
    /\ fhir_skipped' = 0
    /\ success' = 0
    /\ errors' = 0
    /\ commits' = 0
    /\ fhirIdx' = 1
    /\ loaded_ids' = {}
    /\ saved' = FALSE
    /\ allPresent' = FALSE
    /\ newRows' = 0
    /\ erroredPos' = {}
    /\ fhirOps' = {}
    /\ skippedMissing' = {}

IngestIdle ==
    /\ pc = "idle"
    /\ batch_size = 0
    /\ skip_existing = FALSE
    /\ dry_run = FALSE
    /\ fhir_adapter = "none"
    /\ embedder = "unset"
    /\ embedderLog = <<>>
    /\ connLog = <<>>
    /\ files_to_process = <<>>
    /\ batch_start = 0
    /\ processed_ids = {}
    /\ total_success = 0
    /\ total_error = 0
    /\ fhir_created = 0
    /\ fhir_skipped = 0
    /\ success = 0
    /\ errors = 0
    /\ commits = 0
    /\ fhirIdx = 1
    /\ loaded_ids = {}
    /\ saved = FALSE
    /\ allPresent = FALSE
    /\ newRows = 0
    /\ erroredPos = {}
    /\ fhirOps = {}
    /\ skippedMissing = {}

\* the source directory, an empty table, no checkpoint file, no ImagingStudy;
\* withPatients: the first subject of the scenario has a Patient on the FHIR
\* server, the second one has none
StoreInit(sources, withPatients, rows, objects) ==
    /\ files \in sources
    /\ schema = objects
    /\ table = [id \in IdsOf(files) |-> NoRow]
    /\ ckptFile = NoFile
    /\ fhirPatients = (IF withPatients THEN {1} ELSE {})
    /\ fhirStudies = {}
    /\ runs = 0
    /\ prevEnd = "none"
    /\ errBudget = MaxErrors
    /\ failRows = rows
    /\ rowsAtInterrupt = {}
    /\ lastSave = [before |-> NoFile, ids |-> {}]
    /\ putLog = [st \in StudiesOf(files) |-> [n |-> 0, onExisting |-> 0]]

\* what one FHIRRadiologyAdapter() construction gives: an adapter that reached the
\* server, an adapter in demo mode, or an exception
AdapterAttempts == {"live", "demo", "raises"}

\* get_fhir_adapter_with_retry, lines 269-286, from attempt k on: a live adapter is
\* returned at once, a demo-mode adapter only at the last attempt
RECURSIVE FhirAdapterFrom(_, _)
FhirAdapterFrom(attempts, k) ==
    IF k > FHIR_RETRY_MAX THEN "none"
    ELSE IF attempts[k] = "live" THEN "live"
    ELSE IF attempts[k] = "demo" /\ k = FHIR_RETRY_MAX THEN "demo"
    ELSE FhirAdapterFrom(attempts, k + 1)

\* get_fhir_adapter_with_retry
GetFhirAdapterWithRetry(available, attempts) ==
    IF ~available THEN "none" ELSE FhirAdapterFrom(attempts, 1)

\* ingest_mimic_cxr, lines 632-694: from the FHIR adapter to the first batch
BeginBatches(batchSizes, skips, dryRuns, createFhir) ==
    /\ \E bs \in batchSizes, se \in skips, dr \in dryRuns, create_fhir \in createFhir,
          available \in BOOLEAN, attempts \in [1..FHIR_RETRY_MAX -> AdapterAttempts] :
        LET \* lines 632-641
            ad == IF create_fhir THEN GetFhirAdapterWithRetry(available, attempts)
                  ELSE "none"
            loaded == IF se THEN LoadCheckpoint(ckptFile) ELSE {}
            existing == IF se THEN ExistingIds(table) ELSE {}
            todo == FilesToProcess(files, se, existing, loaded)
        IN  \* the adapter is not used by a dry run (line 727); what is not
            \* attempted has no outcome
            /\ dr => ~create_fhir
            /\ ~create_fhir => available
            /\ (~create_fhir \/ ~available) => attempts = [k \in 1..FHIR_RETRY_MAX |-> "raises"]
            /\ batch_size' = bs
            /\ skip_existing' = se
            /\ dry_run' = dr
            /\ fhir_adapter' = ad
            /\ processed_ids' = loaded
            /\ loaded_ids' = loaded
            /\ files_to_process' = todo
            /\ pc' = IF todo = <<>> THEN "all_done" ELSE "batch"
            /\ allPresent' = (\A k \in DOMAIN files : table[files[k].image_id].n > 0)
            /\ skippedMissing' =
                   {k \in DOMAIN files :
                        /\ table[files[k].image_id].n = 0
                        /\ se
                        /\ files[k].image_id \in existing \cup loaded}
    /\ batch_start' = 0
    /\ total_success' = 0
    /\ total_error' = 0
    /\ fhir_created' = 0
    /\ fhir_skipped' = 0
    /\ success' = 0
    /\ errors' = 0
    /\ commits' = 0
    /\ fhirIdx' = 1
    /\ saved' = FALSE
    /\ newRows' = 0
    /\ erroredPos' = {}
    /\ fhirOps' = {}
    /\ UNCHANGED <<files, table, ckptFile, fhirPatients, fhirStudies, prevEnd, errBudget, failRows, rowsAtInterrupt, lastSave, putLog, schema>>
    /\ UNCHANGED <<chatVars, libVars>>

\* ingest_mimic_cxr, lines 623-694, with a healthy embedder and a connection at
\* the first attempt
StartRunWith(batchSizes, dryRuns, createFhir) ==
    /\ pc = "idle"
    /\ runs < MaxRuns
    /\ runs' = runs + 1
    /\ embedder' = "live"
    /\ UNCHANGED <<embedderLog, connLog>>
    /\ BeginBatches(batchSizes, BOOLEAN, dryRuns, createFhir)

\* the batch size of scenario 1, and batches of one image
SmallBatchSizes == {1, 2}

StartRun == StartRunWith(SmallBatchSizes, BOOLEAN, BOOLEAN)

StartRunLarge == StartRunWith({DefaultBatchSize, LargeBatch}, {FALSE}, {FALSE})

\* ingest_mimic_cxr.py:692-694: nothing is left to process
AllProcessed ==
    /\ pc = "all_done"
    /\ RunLocalsReset
    /\ prevEnd' = "completed"
    /\ UNCHANGED <<files, table, ckptFile, fhirPatients, fhirStudies, runs, errBudget, failRows, putLog, schema>>
    /\ rowsAtInterrupt' = {}
    /\ UNCHANGED lastSave
    /\ UNCHANGED <<chatVars, libVars>>

\* ingest_mimic_cxr.py:703-724: one batch is embedded and inserted
IngestBatch ==
    /\ pc = "batch"
    /\ \E embedFailed \in {{}, {1}},
          failing \in UpTo(failRows \cap DOMAIN BatchFiles,
                           IF dry_run THEN 0 ELSE errBudget) :
        LET texts == [k \in DOMAIN BatchFiles |-> "Chest X-ray view"]
            embeddings == BatchEmbedTexts(embedder, texts, embedFailed)
            r == IngestBatchResult(table, BatchFiles, embeddings, dry_run, failing)
        IN  /\ table' = r.table
            /\ success' = r.success
            /\ errors' = r.errors
            /\ total_success' = total_success + r.success
            /\ total_error' = total_error + r.errors
            /\ commits' = IF dry_run THEN commits ELSE commits + 1
            /\ newRows' = newRows + (IF dry_run THEN 0 ELSE r.success)
            /\ erroredPos' = erroredPos \cup {batch_start + k : k \in r.errored}
            /\ errBudget' = errBudget - Cardinality(failing)
    /\ fhirIdx' = 1
    /\ pc' = IF fhir_adapter # "none" /\ ~dry_run THEN "fhir" ELSE "ckpt"
    /\ UNCHANGED <<files, ckptFile, fhirPatients, fhirStudies, runs, prevEnd, failRows, rowsAtInterrupt, lastSave, putLog, schema>>
    /\ UNCHANGED <<batch_size, skip_existing, dry_run, fhir_adapter, embedder, embedderLog,
                   connLog, files_to_process,
                   batch_start, processed_ids, fhir_created, fhir_skipped>>
    /\ UNCHANGED <<loaded_ids, saved, allPresent, fhirOps, skippedMissing>>
    /\ UNCHANGED <<chatVars, libVars>>

\* faulty variant of lookup_fhir_patient: the demo-mode flag is not looked at
LookupFhirPatientNoDemoCheck(adapter, subject_id, patients, ok) ==
    IF adapter = "none" THEN [request |-> FALSE, id |-> None]
    ELSE [request |-> TRUE, id |-> IF ok /\ subject_id \in patients THEN subject_id ELSE None]

\* lookup_fhir_patient: None at once without an adapter or in demo mode; else the
\* Patient search is requested, and None is returned when it finds no Patient
\* or raises (ok = FALSE)
LookupFhirPatient(adapter, subject_id, patients, ok) ==
    IF adapter # "live" THEN [request |-> FALSE, id |-> None]
    ELSE [request |-> TRUE, id |-> IF ok /\ subject_id \in patients THEN subject_id ELSE None]

\* check_imaging_study_exists: an exception of get_imaging_study (ok = FALSE) is
\* swallowed and None is returned
CheckImagingStudyExists(adapter, study_id, studies, ok) ==
    IF adapter = "live" /\ ok /\ study_id \in studies THEN study_id ELSE None

\* faulty variant of create_imaging_study_for_image: an id is returned although
\* the PUT raised
CreateImagingStudyForImageAlwaysId(adapter, study_id, patient_id, studies, checkOk, putOk) ==
    LET existing_id == CheckImagingStudyExists(adapter, study_id, studies, checkOk)
    IN  IF adapter # "live" THEN [put |-> FALSE, id |-> None]
        ELSE IF existing_id # None THEN [put |-> FALSE, id |-> existing_id]
        ELSE IF patient_id = None THEN [put |-> FALSE, id |-> None]
        ELSE [put |-> TRUE, id |-> study_id]

\* create_imaging_study_for_image: (was put_resource called, the id returned)
CreateImagingStudyForImage(adapter, study_id, patient_id, studies, checkOk, putOk) ==
    LET existing_id == CheckImagingStudyExists(adapter, study_id, studies, checkOk)
    IN  IF adapter # "live" THEN [put |-> FALSE, id |-> None]
        ELSE IF existing_id # None THEN [put |-> FALSE, id |-> existing_id]
        ELSE IF patient_id = None THEN [put |-> FALSE, id |-> None]
        ELSE [put |-> TRUE, id |-> IF putOk THEN study_id ELSE None]

\* ingest_mimic_cxr.py:728-749: the FHIR loop body for one image of batch_data
FhirImage ==
    /\ pc = "fhir"
    /\ LET pos == batch_start + fhirIdx
           f == files_to_process[pos]
       IN  \E lookupOk, checkOk, putOk \in BOOLEAN :
            LET failed == Cardinality({r \in {<<"lookup", lookupOk>>, <<"check", checkOk>>,
                                               <<"put", putOk>>} : ~r[2]})
                lookup == LookupFhirPatient(fhir_adapter, f.subject_id, fhirPatients, lookupOk)
                patient_id == lookup.id
                created == IF patient_id = None THEN [put |-> FALSE, id |-> None]
                           ELSE CreateImagingStudyForImage(fhir_adapter, f.study_id, patient_id,
                                                           fhirStudies, checkOk, putOk)
                put == created.put
                fhir_resource_id == created.id
                ops == (IF lookup.request THEN {"lookup"} ELSE {})
                       \cup (IF put THEN {"put"} ELSE {})
                       \cup (IF fhir_resource_id # None THEN {"update", "created"}
                             ELSE {"skipped"})
            IN  \* a request that is not made does not fail
                /\ ~lookupOk => lookup.request
                /\ ~checkOk => patient_id # None /\ fhir_adapter = "live"
                /\ ~putOk => put
                /\ failed <= errBudget
                /\ errBudget' = errBudget - failed
                /\ fhirStudies' = IF put /\ putOk THEN fhirStudies \cup {f.study_id}
                                  ELSE fhirStudies
                \* update_fhir_resource_id
                /\ table' = IF fhir_resource_id # None /\ table[f.image_id].n > 0
                            THEN [table EXCEPT ![f.image_id].fhir = fhir_resource_id]
                            ELSE table
                /\ fhir_created' = fhir_created + (IF fhir_resource_id # None THEN 1 ELSE 0)
                /\ fhir_skipped' = fhir_skipped + (IF fhir_resource_id # None THEN 0 ELSE 1)
                /\ fhirOps' = fhirOps \cup {<<pos, op>> : op \in ops}
                /\ putLog' = IF put THEN LogPut(putLog, f.study_id, f.study_id \in fhirStudies)
                              ELSE putLog
    /\ IF batch_start + fhirIdx < BatchEnd
       THEN fhirIdx' = fhirIdx + 1 /\ pc' = "fhir"
       ELSE fhirIdx' = 1 /\ pc' = "ckpt"
    /\ UNCHANGED <<files, ckptFile, fhirPatients, runs, prevEnd, failRows,
                   rowsAtInterrupt, lastSave, schema>>
    /\ UNCHANGED <<batch_size, skip_existing, dry_run, fhir_adapter, embedder, embedderLog,
                   connLog, files_to_process,
                   batch_start, processed_ids, total_success, total_error, success,
                   errors, commits>>
    /\ UNCHANGED <<loaded_ids, saved, allPresent, newRows, erroredPos, skippedMissing>>
    /\ UNCHANGED <<chatVars, libVars>>

\* ingest_mimic_cxr.py:751-766: the checkpoint update that ends a batch
UpdateCheckpoint ==
    /\ pc = "ckpt"
    /\ LET updated == AddProcessed(processed_ids, IdsOf(BatchFiles))
       IN  /\ processed_ids' = updated
           /\ IF CheckpointDue(BatchEnd)
              THEN /\ ckptFile' = SaveCheckpoint(updated)
                   /\ lastSave' = [before |-> ckptFile, ids |-> updated]
                   /\ saved' = TRUE
              ELSE UNCHANGED <<ckptFile, lastSave, saved>>
    /\ IF BatchEnd < Len(files_to_process)
       THEN batch_start' = batch_start + batch_size /\ pc' = "batch"
       ELSE batch_start' = batch_start /\ pc' = "final"
    /\ UNCHANGED <<files, table, fhirPatients, fhirStudies, runs, prevEnd, errBudget, failRows, rowsAtInterrupt, putLog, schema>>
    /\ UNCHANGED <<batch_size, skip_existing, dry_run, fhir_adapter, embedder, embedderLog,
                   connLog, files_to_process,
                   total_success, total_error, fhir_created, fhir_skipped, success,
                   errors, commits, fhirIdx>>
    /\ UNCHANGED <<loaded_ids, allPresent, newRows, erroredPos, fhirOps, skippedMissing>>
    /\ UNCHANGED <<chatVars, libVars>>

\* ingest_mimic_cxr.py:768-794: the final checkpoint save and the summary
FinishRun ==
    /\ pc = "final"
    /\ ckptFile' = SaveCheckpoint(processed_ids)
    /\ lastSave' = [before |-> ckptFile, ids |-> processed_ids]
    /\ RunLocalsReset
    /\ prevEnd' = "completed"
    /\ UNCHANGED <<files, table, fhirPatients, fhirStudies, runs, errBudget, failRows, putLog, schema>>
    /\ rowsAtInterrupt' = {}
    /\ UNCHANGED <<chatVars, libVars>>

\* the process is interrupted between two steps of a run: the finally block
\* closes the connection, the final save at line 769 is not reached
Interrupt ==
    /\ pc \in {"batch", "fhir", "ckpt", "final"}
    /\ RunLocalsReset
    /\ prevEnd' = "interrupted"
    /\ UNCHANGED <<files, table, ckptFile, fhirPatients, fhirStudies, runs, errBudget, failRows, putLog, schema>>
    /\ rowsAtInterrupt' = ExistingIds(table)
    /\ UNCHANGED lastSave
    /\ UNCHANGED <<chatVars, libVars>>

\* the process is stopped inside save_checkpoint (lines 526-527), at line 756 or
\* at line 769, between the truncation of the file and the end of pickle.dump
SaveCheckpointInterrupted ==
    /\ \/ pc = "ckpt" /\ CheckpointDue(BatchEnd)
       \/ pc = "final"
    /\ LET ids == IF pc = "ckpt" THEN AddProcessed(processed_ids, IdsOf(BatchFiles))
                  ELSE processed_ids
       IN  lastSave' = [before |-> ckptFile, ids |-> ids]
    /\ ckptFile' = TruncatedFile
    /\ RunLocalsReset
    /\ prevEnd' = "interrupted"
    /\ rowsAtInterrupt' = ExistingIds(table)
    /\ UNCHANGED <<files, table, fhirPatients, fhirStudies, runs, errBudget, failRows, putLog, schema>>
    /\ UNCHANGED <<chatVars, libVars>>

----------------------------------------------------------------------------
(* get_embedder: embedder_singleton.py                                     *)

\* the threads that call get_embedder
Threads == {"t1", "t2"}

\* calls of get_embedder each thread makes
MaxCalls == 2

\* embedder_singleton.py:15: _embedder = None at import
SingletonIdle ==
    /\ global_embedder = 0
    /\ tpc = [t \in Threads |-> "idle"]
    /\ built = [t \in Threads |-> 0]
    /\ constructions = 0
    /\ calls = [t \in Threads |-> 0]
    /\ returned = {}

\* line 26: if _embedder is None
CheckEmbedder(t) ==
    /\ tpc[t] = "idle"
    /\ calls[t] < MaxCalls
    /\ tpc' = [tpc EXCEPT ![t] = IF global_embedder = 0 THEN "construct" ELSE "return"]
    /\ UNCHANGED <<global_embedder, built, constructions, calls, returned>>
    /\ UNCHANGED <<chatVars, ingestVars, entityVars, relationVars, mappingVars, encounterVars, importVars, populateVars, memoryVars, healthVars, appVars, concurrentVars, traceVars, findVars, extractVars, limitedVars, repopulateVars>>

\* lines 27-48: the imports, the configuration and the constructor call; an
\* exception is caught and leaves _embedder as it is
ConstructEmbedder(t) ==
    /\ tpc[t] = "construct"
    /\ \E raises \in BOOLEAN :
        IF raises
        THEN /\ tpc' = [tpc EXCEPT ![t] = "return"]
             /\ UNCHANGED <<built, constructions>>
        ELSE /\ constructions' = constructions + 1
             /\ built' = [built EXCEPT ![t] = constructions + 1]
             /\ tpc' = [tpc EXCEPT ![t] = "assign"]
    /\ UNCHANGED <<global_embedder, calls, returned>>
    /\ UNCHANGED <<chatVars, ingestVars, entityVars, relationVars, mappingVars, encounterVars, importVars, populateVars, memoryVars, healthVars, appVars, concurrentVars, traceVars, findVars, extractVars, limitedVars, repopulateVars>>

\* lines 41 and 43: the store to the global _embedder
AssignEmbedder(t) ==
    /\ tpc[t] = "assign"
    /\ global_embedder' = built[t]
    /\ built' = [built EXCEPT ![t] = 0]
    /\ tpc' = [tpc EXCEPT ![t] = "return"]
    /\ UNCHANGED <<constructions, calls, returned>>
    /\ UNCHANGED <<chatVars, ingestVars, entityVars, relationVars, mappingVars, encounterVars, importVars, populateVars, memoryVars, healthVars, appVars, concurrentVars, traceVars, findVars, extractVars, limitedVars, repopulateVars>>

\* line 50: return _embedder
ReturnEmbedder(t) ==
    /\ tpc[t] = "return"
    /\ returned' = returned \cup {global_embedder}
    /\ calls' = [calls EXCEPT ![t] = calls[t] + 1]
    /\ tpc' = [tpc EXCEPT ![t] = "idle"]
    /\ UNCHANGED <<global_embedder, built, constructions>>
    /\ UNCHANGED <<chatVars, ingestVars, entityVars, relationVars, mappingVars, encounterVars, importVars, populateVars, memoryVars, healthVars, appVars, concurrentVars, traceVars, findVars, extractVars, limitedVars, repopulateVars>>

----------------------------------------------------------------------------
(* RAG.Entities: populate_graphrag_tables.py                               *)

\* entity texts and types of the calls
EntityTexts == {"hypertension", "stroke"}

EntityTypes == {"CONDITION", "SYMPTOM"}

\* insert_entity calls made in all
MaxEntityCalls == 4

NoCall == [text |-> "", type |-> "", before |-> <<>>, result |-> 0]

EntitiesIdle ==
    /\ entities = <<>>
    /\ identity = 0
    /\ entityCalls = 0
    /\ lastCall = NoCall

\* lines 264-267: SELECT EntityID FROM RAG.Entities WHERE EntityText = ? AND
\* EntityType = ?: the positions of the rows that match
MatchingRows(rows, text, type) ==
    {k \in 1..Len(rows) : rows[k].EntityText = text /\ rows[k].EntityType = type}

\* faulty variant of insert_entity: the row is inserted without looking for an
\* existing one
InsertEntityAlways(rows, last, text, type) ==
    [rows |-> Append(rows, [EntityID |-> last + 1, EntityText |-> text, EntityType |-> type]),
     identity |-> last + 1,
     result |-> last + 1]

\* insert_entity, lines 258-281: the rows and the counter after the call and the
\* id returned; fetchone gives the first row that matches
InsertEntity(rows, last, text, type) ==
    LET existing == MatchingRows(rows, text, type)
    IN  IF existing # {}
        THEN [rows |-> rows, identity |-> last,
              result |-> rows[CHOOSE k \in existing : \A m \in existing : k <= m].EntityID]
        ELSE [rows |-> Append(rows, [EntityID |-> last + 1, EntityText |-> text,
                                     EntityType |-> type]),
              identity |-> last + 1,
              result |-> last + 1]

\* one insert_entity call of populate_data, lines 324-366
InsertEntityCall ==
    /\ entityCalls < MaxEntityCalls
    /\ \E text \in EntityTexts, type \in EntityTypes :
        LET r == InsertEntity(entities, identity, text, type)
        IN  /\ entities' = r.rows
            /\ identity' = r.identity
            /\ lastCall' = [text |-> text, type |-> type, before |-> entities,
                            result |-> r.result]
    /\ entityCalls' = entityCalls + 1
    /\ UNCHANGED <<chatVars, ingestVars, singletonVars, relationVars, mappingVars, encounterVars, importVars, populateVars, memoryVars, healthVars, appVars, concurrentVars, traceVars, findVars, extractVars, limitedVars, repopulateVars>>

\* create_entities_table with force, lines 147-163: DROP TABLE IF EXISTS, then
\* CREATE TABLE
RecreateEntitiesTable ==
    /\ entities # <<>>
    /\ entities' = <<>>
    /\ identity' = 0
    /\ lastCall' = NoCall
    /\ UNCHANGED entityCalls
    /\ UNCHANGED <<chatVars, ingestVars, singletonVars, relationVars, mappingVars, encounterVars, importVars, populateVars, memoryVars, healthVars, appVars, concurrentVars, traceVars, findVars, extractVars, limitedVars, repopulateVars>>

----------------------------------------------------------------------------
(* RAG.EntityRelationships: populate_graphrag_tables.py                    *)

\* entity ids and relationship types of the calls
RelEntityIds == {1, 2}

RelTypes == {"treated_by", "affects"}

\* insert_relationship calls made in all
MaxRelationshipCalls == 3

NoRelCall == [source |-> 0, target |-> 0, type |-> "", before |-> <<>>, result |-> FALSE]

RelationshipsIdle ==
    /\ relationships = <<>>
    /\ relIdentity = 0
    /\ relCalls = 0
    /\ lastRelCall = NoRelCall

\* lines 290-294: SELECT RelationshipID FROM RAG.EntityRelationships WHERE
\* SourceEntityID = ? AND TargetEntityID = ? AND RelationshipType = ?
MatchingRelationships(rows, source_id, target_id, rel_type) ==
    {k \in 1..Len(rows) : /\ rows[k].SourceEntityID = source_id
                          /\ rows[k].TargetEntityID = target_id
                          /\ rows[k].RelationshipType = rel_type}

\* faulty variant of insert_relationship: the row is inserted without looking
\* for an existing one
InsertRelationshipAlways(rows, last, source_id, target_id, rel_type) ==
    [rows |-> Append(rows, [RelationshipID |-> last + 1, SourceEntityID |-> source_id,
                            TargetEntityID |-> target_id, RelationshipType |-> rel_type]),
     identity |-> last + 1,
     result |-> TRUE]

\* insert_relationship, lines 284-304: the rows and the counter after the call
\* and the value returned
InsertRelationship(rows, last, source_id, target_id, rel_type) ==
    IF MatchingRelationships(rows, source_id, target_id, rel_type) # {}
    THEN [rows |-> rows, identity |-> last, result |-> FALSE]
    ELSE [rows |-> Append(rows, [RelationshipID |-> last + 1, SourceEntityID |-> source_id,
                                 TargetEntityID |-> target_id,
                                 RelationshipType |-> rel_type]),
          identity |-> last + 1,
          result |-> TRUE]

\* one insert_relationship call of populate_data, lines 333-388
InsertRelationshipCall ==
    /\ relCalls < MaxRelationshipCalls
    /\ \E source_id \in RelEntityIds, target_id \in RelEntityIds, rel_type \in RelTypes :
        LET r == InsertRelationship(relationships, relIdentity, source_id, target_id, rel_type)
        IN  /\ relationships' = r.rows
            /\ relIdentity' = r.identity
            /\ lastRelCall' = [source |-> source_id, target |-> target_id, type |-> rel_type,
                               before |-> relationships, result |-> r.result]
    /\ relCalls' = relCalls + 1
    /\ UNCHANGED <<chatVars, ingestVars, singletonVars, entityVars, mappingVars, encounterVars, importVars, populateVars, memoryVars, healthVars, appVars, concurrentVars, traceVars, findVars, extractVars, limitedVars, repopulateVars>>

\* create_relationships_table with force, lines 181-203: DROP TABLE IF EXISTS,
\* then CREATE TABLE
RecreateRelationshipsTable ==
    /\ relationships # <<>>
    /\ relationships' = <<>>
    /\ relIdentity' = 0
    /\ lastRelCall' = NoRelCall
    /\ UNCHANGED relCalls
    /\ UNCHANGED <<chatVars, ingestVars, singletonVars, entityVars, mappingVars, encounterVars, importVars, populateVars, memoryVars, healthVars, appVars, concurrentVars, traceVars, findVars, extractVars, limitedVars, repopulateVars>>

----------------------------------------------------------------------------
(* import_subject_mappings: import_radiology_fhir.py                       *)

\* MIMIC subject ids and the ids of the Patient resources of the FHIR server
MimicSubjects == {"p10", "p20"}

FhirPatientIds == {"pA", "pB"}

\* import_subject_mappings calls made in all
MaxMappingRuns == 2

\* the subjects lists of the calls: up to two subjects, in either order
SubjectLists ==
    {<<s>> : s \in MimicSubjects} \cup {<<s, t>> : s \in MimicSubjects, t \in MimicSubjects}

MappingsIdle ==
    /\ mappings = {}
    /\ mapPc = "idle"
    /\ subjects = <<>>
    /\ fhir_patients = {}
    /\ create_synthea = FALSE
    /\ mapDryRun = FALSE
    /\ used_patient_ids = {}
    /\ mapIdx = 1
    /\ mapRuns = 0

\* lookup_patient_mapping: the rows of the subject (MIMICSubjectID is the
\* primary key of the table)
LookupPatientMapping(rows, subject_id) == {r \in rows : r.MIMICSubjectID = subject_id}

\* insert_patient_mapping
InsertPatientMapping(rows, subject_id, patient_id, match_type) ==
    rows \cup {[MIMICSubjectID |-> subject_id, FHIRPatientID |-> patient_id,
                MatchType |-> match_type]}

\* match_patient_for_subject, line 191: the patients random.choice draws from
AvailablePatients(patients, used) == patients \ used

\* create_synthea_patient, line 224: f"synthea-{subject_id.replace('p', '')}"
SyntheaPatientId(subject_id) ==
    CASE subject_id = "p10" -> "synthea-10"
      [] subject_id = "p20" -> "synthea-20"

\* import_subject_mappings is called: lines 269-296
StartImportMappings ==
    /\ mapPc = "idle"
    /\ mapRuns < MaxMappingRuns
    /\ mapRuns' = mapRuns + 1
    /\ subjects' \in SubjectLists
    /\ fhir_patients' \in SUBSET FhirPatientIds
    /\ create_synthea' \in BOOLEAN
    /\ mapDryRun' \in BOOLEAN
    /\ used_patient_ids' = {}
    /\ mapIdx' = 1
    /\ mapPc' = "loop"
    /\ UNCHANGED mappings
    /\ UNCHANGED <<chatVars, ingestVars, singletonVars, entityVars, relationVars, encounterVars, importVars, populateVars, memoryVars, healthVars, appVars, concurrentVars, traceVars, findVars, extractVars, limitedVars, repopulateVars>>

\* one iteration of the loop of lines 298-350; `raises`: create_synthea_patient
\* or insert_patient_mapping raises
ImportSubjectMapping ==
    /\ mapPc = "loop"
    /\ mapIdx <= Len(subjects)
    /\ LET subject_id == subjects[mapIdx]
           existing == LookupPatientMapping(mappings, subject_id)
           available == AvailablePatients(fhir_patients, used_patient_ids)
       IN  IF existing # {}
           THEN /\ used_patient_ids' = used_patient_ids \cup {r.FHIRPatientID : r \in existing}
                /\ UNCHANGED mappings
           ELSE IF available # {}
           THEN \E patient_id \in available, raises \in BOOLEAN :
                    /\ raises => ~mapDryRun
                    /\ used_patient_ids' = used_patient_ids \cup {patient_id}
                    /\ mappings' = IF mapDryRun \/ raises THEN mappings
                                   ELSE InsertPatientMapping(mappings, subject_id, patient_id,
                                                             "random_assignment")
           ELSE IF create_synthea
           THEN \E raises \in BOOLEAN :
                    /\ raises => ~mapDryRun
                    /\ mappings' = IF mapDryRun \/ raises THEN mappings
                                   ELSE InsertPatientMapping(mappings, subject_id,
                                                             SyntheaPatientId(subject_id),
                                                             "synthea_generated")
                    /\ UNCHANGED used_patient_ids
           ELSE UNCHANGED <<mappings, used_patient_ids>>
    /\ mapIdx' = mapIdx + 1
    /\ UNCHANGED <<mapPc, subjects, fhir_patients, create_synthea, mapDryRun, mapRuns>>
    /\ UNCHANGED <<chatVars, ingestVars, singletonVars, entityVars, relationVars, encounterVars, importVars, populateVars, memoryVars, healthVars, appVars, concurrentVars, traceVars, findVars, extractVars, limitedVars, repopulateVars>>

\* line 352: return stats
FinishImportMappings ==
    /\ mapPc = "loop"
    /\ mapIdx > Len(subjects)
    /\ mapPc' = "idle"
    /\ subjects' = <<>>
    /\ fhir_patients' = {}
    /\ create_synthea' = FALSE
    /\ mapDryRun' = FALSE
    /\ used_patient_ids' = {}
    /\ mapIdx' = 1
    /\ UNCHANGED <<mappings, mapRuns>>
    /\ UNCHANGED <<chatVars, ingestVars, singletonVars, entityVars, relationVars, encounterVars, importVars, populateVars, memoryVars, healthVars, appVars, concurrentVars, traceVars, findVars, extractVars, limitedVars, repopulateVars>>

----------------------------------------------------------------------------
(* Encounter matching: lookup_encounter_by_date of the FHIR adapter        *)

\* import_radiology_fhir.py:453: window_hours=24
WindowHours == 24

\* Encounters a patient may have; an id is the sequence of its characters: "9",
\* "10", "2", "3", "4"
CandidateEncounters ==
    { [id |-> <<9>>,    start |-> 11,  end |-> 13],
      [id |-> <<1, 0>>, start |-> -13, end |-> -11],
      [id |-> <<2>>,    start |-> 29,  end |-> 31],
      [id |-> <<3>>,    start |-> 20,  end |-> 40],
      [id |-> <<4>>,    start |-> -30, end |-> -25] }

StudyTimes == {0, 1}

EncountersIdle ==
    /\ encounters = {}
    /\ study_datetime = 0
    /\ matched = [called |-> FALSE, id |-> <<>>]

\* a < b in lexicographic order of the ids
RECURSIVE LexLess(_, _)
LexLess(a, b) ==
    IF b = <<>> THEN FALSE
    ELSE IF a = <<>> THEN TRUE
    ELSE IF Head(a) # Head(b) THEN Head(a) < Head(b)
    ELSE LexLess(Tail(a), Tail(b))

\* twice the distance of the midpoint of the encounter to the study time
MidpointDistance2(e, t) ==
    LET d == (e.start + e.end) - 2 * t IN IF d < 0 THEN -d ELSE d

\* the lookup, one encounter after the other: an encounter that meets
\* [t - window, t + window] replaces the best one so far when its midpoint is
\* nearer to t, or as near and its id is lower
RECURSIVE LookupEncounterFrom(_, _, _, _, _)
LookupEncounterFrom(encs, t, window, bestId, bestDist) ==
    IF encs = {} THEN bestId
    ELSE LET e == CHOOSE x \in encs : TRUE
             d == MidpointDistance2(e, t)
             meets == e.start <= t + window /\ e.end >= t - window
             better == bestId = <<>> \/ d < bestDist \/ (d = bestDist /\ LexLess(e.id, bestId))
         IN  IF meets /\ better
             THEN LookupEncounterFrom(encs \ {e}, t, window, e.id, d)
             ELSE LookupEncounterFrom(encs \ {e}, t, window, bestId, bestDist)

\* faulty variant of the lookup: any encounter of the patient may be returned
\* whether or not it meets the window
LookupEncounterAnyWindow(encs, t, window) ==
    LookupEncounterFrom(encs, t, window + 100, <<>>, 0)

\* lookup_encounter_by_date(patient_id, study_date, window_hours)
LookupEncounterByDate(encs, t, window) == LookupEncounterFrom(encs, t, window, <<>>, 0)

\* import_radiology_fhir.py:450-454: the lookup is called
LookupEncounter ==
    /\ ~matched.called
    /\ matched' = [called |-> TRUE,
                   id |-> LookupEncounterByDate(encounters, study_datetime, WindowHours)]
    /\ UNCHANGED <<encounters, study_datetime>>
    /\ UNCHANGED <<chatVars, ingestVars, singletonVars, entityVars, relationVars, mappingVars, importVars, populateVars, memoryVars, healthVars, appVars, concurrentVars, traceVars, findVars, extractVars, limitedVars, repopulateVars>>

----------------------------------------------------------------------------
(* create_imaging_studies_for_subject: import_radiology_fhir.py           *)

NoImport == [dry_run |-> FALSE, studies |-> <<>>]

ImportIdle == lastImport = NoImport

\* import_radiology_fhir.py:397-480: create_imaging_studies_for_subject for a
\* mapped subject, run while no ingestion is running. The studies are the
\* distinct StudyIDs of the subject's rows. For a study get_imaging_study,
\* lookup_encounter_by_date or put_resource may raise, which is counted as an
\* error of that study (lines 476-478) and ends its iteration.
CreateImagingStudiesForSubject ==
    /\ pc = "idle"
    /\ \E subject_id \in SubjectsOf(files), match_encounters \in BOOLEAN,
          import_dry_run \in BOOLEAN :
        LET unique_studies ==
                {table[id].study_id :
                    id \in {x \in DOMAIN table : table[x].n > 0
                                                 /\ table[x].subject_id = subject_id}}
        IN  \E outcome \in [unique_studies ->
                               {"ok", "get_raises", "lookup_raises", "put_raises"}] :
                LET reached == {st \in unique_studies :
                                 /\ outcome[st] \notin {"get_raises", "lookup_raises"}
                                 /\ st \notin fhirStudies}
                    puts == IF import_dry_run THEN {} ELSE reached
                    failed == Cardinality({st \in unique_studies : outcome[st] # "ok"})
                    encounter_id ==
                        IF match_encounters
                        THEN LookupEncounterByDate(encounters, study_datetime, WindowHours)
                        ELSE <<>>
                IN  /\ \A st \in unique_studies :
                         /\ outcome[st] = "put_raises" => st \in puts
                         /\ outcome[st] = "lookup_raises" =>
                               match_encounters /\ st \notin fhirStudies
                    /\ failed <= errBudget
                    /\ errBudget' = errBudget - failed
                    /\ fhirStudies' = fhirStudies \cup {st \in puts : outcome[st] = "ok"}
                    /\ putLog' = [st \in DOMAIN putLog |->
                                    IF st \in puts THEN LogPut(putLog, st, FALSE)[st]
                                    ELSE putLog[st]]
                    /\ lastImport' =
                         [dry_run |-> import_dry_run,
                          studies |-> [st \in unique_studies |->
                             [lookup |-> IF outcome[st] = "lookup_raises" THEN "raises"
                                         ELSE IF st \in reached /\ match_encounters
                                         THEN (IF encounter_id = <<>> THEN "none" ELSE "found")
                                         ELSE "not_called",
                              put |-> st \in puts,
                              encounter_id |-> IF st \in puts THEN encounter_id ELSE <<>>]]]
    /\ UNCHANGED <<files, table, ckptFile, fhirPatients, runs, prevEnd, failRows,
                   rowsAtInterrupt, lastSave, schema>>
    /\ UNCHANGED <<runVars, logVars, chatVars>>
    /\ UNCHANGED <<singletonVars, entityVars, relationVars, mappingVars, encounterVars, populateVars, memoryVars, healthVars, appVars, concurrentVars, traceVars, findVars, extractVars, limitedVars, repopulateVars>>

----------------------------------------------------------------------------
(* populate_data: populate_graphrag_tables.py                              *)

\* populate_graphrag_tables.py:31-112
CONDITIONS_DATA == <<
    [condition |-> "diabetes mellitus type 2",
     medications |-> <<"metformin", "insulin glargine", "glipizide", "sitagliptin">>,
     symptoms |-> <<"hyperglycemia", "polyuria", "polydipsia", "fatigue", "blurred vision",
         "neuropathy">>,
     anatomy |-> <<"pancreas", "liver", "kidney">>,
     procedures |-> <<"glucose monitoring", "HbA1c test", "foot examination">>],
    [condition |-> "hypertension",
     medications |-> <<"lisinopril", "amlodipine", "hydrochlorothiazide", "metoprolol",
         "losartan">>,
     symptoms |-> <<"elevated blood pressure", "headache", "dizziness", "chest pain">>,
     anatomy |-> <<"heart", "blood vessels", "kidney">>,
     procedures |-> <<"blood pressure monitoring", "echocardiogram", "renal function test">>],
    [condition |-> "congestive heart failure",
     medications |-> <<"furosemide", "carvedilol", "lisinopril", "spironolactone", "digoxin">>,
     symptoms |-> <<"shortness of breath", "dyspnea", "edema", "fatigue", "orthopnea",
         "jugular venous distension">>,
     anatomy |-> <<"heart", "lungs", "lower extremities">>,
     procedures |-> <<"echocardiogram", "BNP test", "chest x-ray",
         "cardiac catheterization">>],
    [condition |-> "pneumonia",
     medications |-> <<"amoxicillin", "azithromycin", "levofloxacin", "ceftriaxone">>,
     symptoms |-> <<"cough", "fever", "dyspnea", "chest pain", "productive sputum", "chills">>,
     anatomy |-> <<"lungs", "bronchi", "pleura">>,
     procedures |-> <<"chest x-ray", "sputum culture", "blood culture", "CT scan chest">>],
    [condition |-> "chronic obstructive pulmonary disease",
     medications |-> <<"tiotropium", "fluticasone", "albuterol", "salmeterol", "prednisone">>,
     symptoms |-> <<"dyspnea", "chronic cough", "wheezing", "exercise intolerance",
         "barrel chest">>,
     anatomy |-> <<"lungs", "bronchi", "diaphragm">>,
     procedures |-> <<"pulmonary function test", "spirometry", "chest x-ray",
         "ABG analysis">>],
    [condition |-> "acute myocardial infarction",
     medications |-> <<"aspirin", "heparin", "nitroglycerin", "morphine", "clopidogrel",
         "atorvastatin">>,
     symptoms |-> <<"chest pain", "diaphoresis", "nausea", "shortness of breath", "arm pain",
         "jaw pain">>,
     anatomy |-> <<"heart", "coronary arteries", "left ventricle">>,
     procedures |-> <<"ECG", "cardiac catheterization", "troponin test",
         "coronary angiography", "PCI">>],
    [condition |-> "atrial fibrillation",
     medications |-> <<"warfarin", "apixaban", "rivaroxaban", "metoprolol", "diltiazem",
         "amiodarone">>,
     symptoms |-> <<"palpitations", "irregular heartbeat", "fatigue", "dizziness", "syncope">>,
     anatomy |-> <<"heart", "atria", "AV node">>,
     procedures |-> <<"ECG", "Holter monitor", "echocardiogram", "cardioversion",
         "ablation">>],
    [condition |-> "chronic kidney disease",
     medications |-> <<"epoetin alfa", "sevelamer", "calcitriol", "sodium bicarbonate">>,
     symptoms |-> <<"fatigue", "edema", "anemia", "nausea", "decreased urine output",
         "pruritus">>,
     anatomy |-> <<"kidney", "ureter", "bladder">>,
     procedures |-> <<"GFR test", "creatinine test", "renal ultrasound", "kidney biopsy",
         "dialysis">>],
    [condition |-> "sepsis",
     medications |-> <<"vancomycin", "piperacillin-tazobactam", "norepinephrine",
         "hydrocortisone">>,
     symptoms |-> <<"fever", "tachycardia", "hypotension", "altered mental status",
         "tachypnea">>,
     anatomy |-> <<"blood", "multiple organ systems">>,
     procedures |-> <<"blood culture", "lactate test", "procalcitonin",
         "central line placement">>],
    [condition |-> "stroke",
     medications |-> <<"alteplase", "aspirin", "clopidogrel", "atorvastatin", "heparin">>,
     symptoms |-> <<"hemiparesis", "aphasia", "facial droop", "dysarthria",
         "visual disturbance", "ataxia">>,
     anatomy |-> <<"brain", "cerebral arteries", "carotid artery">>,
     procedures |-> <<"CT head", "MRI brain", "carotid ultrasound", "thrombectomy",
         "tPA administration">>]
>>

\* populate_graphrag_tables.py:374-383
Comorbidities == <<
    <<"diabetes mellitus type 2", "hypertension", "comorbid_with">>,
    <<"diabetes mellitus type 2", "chronic kidney disease", "leads_to">>,
    <<"hypertension", "stroke", "risk_factor_for">>,
    <<"hypertension", "congestive heart failure", "contributes_to">>,
    <<"atrial fibrillation", "stroke", "risk_factor_for">>,
    <<"congestive heart failure", "chronic kidney disease", "associated_with">>,
    <<"acute myocardial infarction", "congestive heart failure", "can_cause">>,
    <<"sepsis", "acute myocardial infarction", "can_trigger">>
>>

PopulateIdle ==
    /\ popPc = "idle"
    /\ condIdx = 1
    /\ itemIdx = 1
    /\ entity_ids = <<>>
    /\ condition_id = 0
    /\ entities_added = 0
    /\ relationships_added = 0

\* the texts of a list with the entity type and the relationship type the loop
\* over that list uses
Tagged(texts, type, rel) ==
    [k \in 1..Len(texts) |-> [text |-> texts[k], type |-> type, rel |-> rel]]

\* faulty variant of the inner loops: the loop over the procedures is missing
RelatedEntitiesWithoutProcedures(condition_data) ==
    Tagged(condition_data.medications, "MEDICATION", "treated_by")
    \o Tagged(condition_data.symptoms, "SYMPTOM", "presents_with")
    \o Tagged(condition_data.anatomy, "ANATOMY", "affects")

\* lines 329-372: the related entities of a condition in the order of the four
\* inner loops
RelatedEntities(condition_data) ==
    Tagged(condition_data.medications, "MEDICATION", "treated_by")
    \o Tagged(condition_data.symptoms, "SYMPTOM", "presents_with")
    \o Tagged(condition_data.anatomy, "ANATOMY", "affects")
    \o Tagged(condition_data.procedures, "PROCEDURE", "diagnosed_by")

\* entity_ids[text] = id
SetEntityId(ids, text, id) ==
    [t \in DOMAIN ids \cup {text} |-> IF t = text THEN id ELSE ids[t]]

\* `id not in entity_ids.values()`
NotAmongValues(ids, id) == \A t \in DOMAIN ids : ids[t] # id

\* populate_data is called without dry_run: lines 307-315
StartPopulate ==
    /\ popPc = "idle"
    /\ popPc' = "condition"
    /\ condIdx' = 1
    /\ itemIdx' = 1
    /\ entity_ids' = <<>>
    /\ condition_id' = 0
    /\ entities_added' = 0
    /\ relationships_added' = 0
    /\ UNCHANGED <<chatVars, ingestVars, singletonVars, entityVars, relationVars, mappingVars, encounterVars, importVars, memoryVars, healthVars, appVars, concurrentVars, traceVars, findVars, extractVars, limitedVars, repopulateVars>>

\* lines 319-327: the condition of the outer loop is inserted
PopulateCondition ==
    /\ popPc = "condition"
    /\ LET condition_name == CONDITIONS_DATA[condIdx].condition
           r == InsertEntity(entities, identity, condition_name, "CONDITION")
       IN  /\ entities' = r.rows
           /\ identity' = r.identity
           /\ condition_id' = r.result
           /\ entities_added' = entities_added
                                  + (IF NotAmongValues(entity_ids, r.result) THEN 1 ELSE 0)
           /\ entity_ids' = SetEntityId(entity_ids, condition_name, r.result)
    /\ popPc' = "items"
    /\ itemIdx' = 1
    /\ UNCHANGED <<condIdx, relationships_added, entityCalls, lastCall>>
    /\ UNCHANGED <<chatVars, ingestVars, singletonVars, relationVars, mappingVars, encounterVars, importVars, memoryVars, healthVars, appVars, concurrentVars, traceVars, findVars, extractVars, limitedVars, repopulateVars>>

\* one iteration of an inner loop, lines 329-372: the related entity is
\* inserted, then its relationship with the condition
PopulateRelatedEntity ==
    /\ popPc = "items"
    /\ LET items == RelatedEntities(CONDITIONS_DATA[condIdx])
           item == items[itemIdx]
           r == InsertEntity(entities, identity, item.text, item.type)
           rel == InsertRelationship(relationships, relIdentity, condition_id, r.result,
                                     item.rel)
       IN  /\ entities' = r.rows
           /\ identity' = r.identity
           /\ entities_added' = entities_added
                                  + (IF NotAmongValues(entity_ids, r.result) THEN 1 ELSE 0)
           /\ entity_ids' = SetEntityId(entity_ids, item.text, r.result)
           /\ relationships' = rel.rows
           /\ relIdentity' = rel.identity
           /\ relationships_added' = relationships_added + (IF rel.result THEN 1 ELSE 0)
           /\ IF itemIdx < Len(items)
              THEN itemIdx' = itemIdx + 1 /\ UNCHANGED <<popPc, condIdx>>
              ELSE IF condIdx < Len(CONDITIONS_DATA)
              THEN popPc' = "condition" /\ condIdx' = condIdx + 1 /\ itemIdx' = 1
              ELSE popPc' = "comorbidities" /\ itemIdx' = 1 /\ UNCHANGED condIdx
    /\ UNCHANGED <<condition_id, entityCalls, lastCall, relCalls, lastRelCall>>
    /\ UNCHANGED <<chatVars, ingestVars, singletonVars, mappingVars, encounterVars, importVars, memoryVars, healthVars, appVars, concurrentVars, traceVars, findVars, extractVars, limitedVars, repopulateVars>>

\* one iteration of the loop of lines 385-388, and the return of line 390 after
\* the last one
PopulateComorbidity ==
    /\ popPc = "comorbidities"
    /\ LET source == Comorbidities[itemIdx][1]
           target == Comorbidities[itemIdx][2]
           rel_type == Comorbidities[itemIdx][3]
       IN  IF source \in DOMAIN entity_ids /\ target \in DOMAIN entity_ids
           THEN LET rel == InsertRelationship(relationships, relIdentity, entity_ids[source],
                                              entity_ids[target], rel_type)
                IN  /\ relationships' = rel.rows
                    /\ relIdentity' = rel.identity
                    /\ relationships_added' = relationships_added
                                                + (IF rel.result THEN 1 ELSE 0)
           ELSE UNCHANGED <<relationships, relIdentity, relationships_added>>
    /\ IF itemIdx < Len(Comorbidities)
       THEN itemIdx' = itemIdx + 1 /\ UNCHANGED popPc
       ELSE popPc' = "done" /\ UNCHANGED itemIdx
    /\ UNCHANGED <<condIdx, entity_ids, condition_id, entities_added, relCalls, lastRelCall>>
    /\ UNCHANGED <<chatVars, ingestVars, singletonVars, entityVars, mappingVars, encounterVars, importVars, memoryVars, healthVars, appVars, concurrentVars, traceVars, findVars, extractVars, limitedVars, repopulateVars>>

MaxRepopulations == 1

RepopulateIdle ==
    /\ repopulations = 0
    /\ rowsAtStart = [entities |-> 0, relationships |-> 0]

\* the script is run again without --force on the graph the run before has
\* populated and committed (main, lines 424-444): populate_data starts with
\* entities_added = 0, relationships_added = 0 and an empty entity_ids
StartPopulateAgain ==
    /\ popPc = "done"
    /\ repopulations < MaxRepopulations
    /\ repopulations' = repopulations + 1
    /\ rowsAtStart' = [entities |-> Len(entities), relationships |-> Len(relationships)]
    /\ popPc' = "condition"
    /\ condIdx' = 1
    /\ itemIdx' = 1
    /\ entity_ids' = <<>>
    /\ condition_id' = 0
    /\ entities_added' = 0
    /\ relationships_added' = 0
    /\ UNCHANGED <<chatVars, ingestVars, singletonVars, entityVars, relationVars,
                   mappingVars, encounterVars, importVars, memoryVars, healthVars,
                   appVars, concurrentVars, traceVars, findVars, extractVars,
                   limitedVars>>

----------------------------------------------------------------------------
(* check-health: src/cli/__main__.py, format_report and check_health_command *)

\* the statuses of the results of run_all_checks: __main__.py:88 and 140 only
\* compare r.status with "pass", "fail" and "warn" stand for every other value
HealthStatuses == {"pass", "fail", "warn"}

MaxChecks == 3

HealthIdle ==
    /\ healthPc = "idle"
    /\ smoke_test_arg = FALSE
    /\ smoke_raises = FALSE
    /\ check_results = <<>>
    /\ checks_raise = FALSE
    /\ smoke_test_result = "none"
    /\ report_status = "none"
    /\ exit_code = -1

\* __main__.py:88 and 140: all(r.status == "pass" for r in results)
AllChecksPass(results) == \A k \in 1..Len(results) : results[k] = "pass"

\* faulty variant of FormatReport: the smoke test is left out of the status
FormatReportWithoutSmokeTest(results, smoke_test) ==
    IF AllChecksPass(results) THEN "pass" ELSE "fail"

\* __main__.py:86-99: the 'status' field of the report
FormatReport(results, smoke_test) ==
    IF AllChecksPass(results) /\ ~(smoke_test # "none" /\ smoke_test = "fail")
    THEN "pass" ELSE "fail"

\* __main__.py:105-120: the smoke test, run only when requested; an exception
\* of the search becomes a result with status 'fail'
RunSmokeTest ==
    /\ healthPc = "smoke"
    /\ smoke_test_result' = IF ~smoke_test_arg THEN "none"
                            ELSE IF smoke_raises THEN "fail" ELSE "pass"
    /\ healthPc' = "checks"
    /\ UNCHANGED <<smoke_test_arg, smoke_raises, check_results, checks_raise,
                   report_status, exit_code>>
    /\ UNCHANGED <<chatVars, ingestVars, singletonVars, entityVars, relationVars,
                   mappingVars, encounterVars, importVars, populateVars, memoryVars,
                   appVars, concurrentVars, traceVars, findVars, extractVars, limitedVars, repopulateVars>>

\* __main__.py:122-151: the checks run, the report is printed and the process
\* exits; SystemExit is not an Exception, so the handler of lines 145-151 only
\* sees what run_all_checks raised
RunChecksAndExit ==
    /\ healthPc = "checks"
    /\ IF checks_raise
       THEN /\ report_status' = "fail"
            /\ exit_code' = 1
       ELSE /\ report_status' = FormatReport(check_results, smoke_test_result)
            /\ exit_code' = IF AllChecksPass(check_results) /\ smoke_test_result # "fail"
                            THEN 0 ELSE 1
    /\ healthPc' = "exited"
    /\ UNCHANGED <<smoke_test_arg, smoke_raises, check_results, checks_raise,
                   smoke_test_result>>
    /\ UNCHANGED <<chatVars, ingestVars, singletonVars, entityVars, relationVars,
                   mappingVars, encounterVars, importVars, populateVars, memoryVars,
                   appVars, concurrentVars, traceVars, findVars, extractVars, limitedVars, repopulateVars>>

----------------------------------------------------------------------------
(* The chat HTTP front-end: Tutorial/App/app.py and patient_history_chatbot.py *)

Clients == {"c1", "c2"}
HeaderIds == {"h1", "h2"}
RemoteAddrs == {"10.0.0.1", "10.0.0.2"}
PatientIds == {0, 1, 2}
MaxRequests == 3

\* stands for a key that is not in bot_instances
NoBot == [patient_id |-> -1, turns |-> {}]

\* patient_history_chatbot.py:15-20: patient_id 0 and an empty conversation
\* memory; a turn of the memory is modelled by the client that sent it
NewBot == [patient_id |-> 0, turns |-> {}]

AppIdle ==
    /\ flask_session = [c \in Clients |-> [sid |-> "none", patient_id |-> 0]]
    /\ bot_instances = [s \in HeaderIds \cup RemoteAddrs \cup {"anon"} |-> NoBot]
    /\ remote_addr = [c \in Clients |-> "none"]
    /\ headersSent = [c \in Clients |-> {}]
    /\ replyMemory = [c \in Clients |-> {}]
    /\ appRequests = 0

\* app.py:16-19: the sid of the cookie, else the X-Session-Id header, else the
\* remote address, else "anon"
SessionSid(c, header) ==
    IF flask_session[c].sid # "none" THEN flask_session[c].sid
    ELSE IF header # "none" THEN header
    ELSE IF remote_addr[c] # "none" THEN remote_addr[c]
    ELSE "anon"

\* app.py:20-21: the bot of the sid is created when the key is missing
BotsAfterGet(sid) ==
    IF bot_instances[sid] = NoBot THEN [bot_instances EXCEPT ![sid] = NewBot]
    ELSE bot_instances

\* the bookkeeping common to the three routes
Request(c, header) ==
    /\ appRequests < MaxRequests
    /\ appRequests' = appRequests + 1
    /\ headersSent' = [headersSent EXCEPT ![c] = @ \cup ({header} \ {"none"})]
    /\ UNCHANGED remote_addr
    /\ UNCHANGED <<chatVars, ingestVars, singletonVars, entityVars, relationVars,
                   mappingVars, encounterVars, importVars, populateVars, memoryVars,
                   healthVars, concurrentVars, traceVars, findVars, extractVars, limitedVars, repopulateVars>>

\* app.py:34-47: POST /set_patient
SetPatient(c, header, valid, pid) ==
    /\ Request(c, header)
    /\ UNCHANGED replyMemory
    /\ IF ~valid
       THEN UNCHANGED <<flask_session, bot_instances>>
       ELSE LET sid == SessionSid(c, header) IN
            /\ bot_instances' = [BotsAfterGet(sid) EXCEPT ![sid].patient_id = pid]
            /\ flask_session' = [flask_session EXCEPT ![c] = [sid |-> sid, patient_id |-> pid]]

\* app.py:50-84: POST /chat, with patient_history_chatbot.py:52-77 (run)
Chat(c, header, empty, do_search, raises) ==
    /\ Request(c, header)
    /\ IF empty
       THEN UNCHANGED <<flask_session, bot_instances, replyMemory>>
       ELSE LET sid == SessionSid(c, header)
                bots == BotsAfterGet(sid)
                patient_id == flask_session[c].patient_id
            IN  /\ flask_session' = [flask_session EXCEPT ![c].sid = sid]
                /\ IF do_search /\ patient_id = 0
                   THEN /\ bot_instances' = bots
                        /\ UNCHANGED replyMemory
                   ELSE LET withPatient == IF do_search
                                           THEN [bots EXCEPT ![sid].patient_id = patient_id]
                                           ELSE bots
                        IN  IF raises
                            THEN /\ bot_instances' = withPatient
                                 /\ UNCHANGED replyMemory
                            ELSE /\ replyMemory' = [replyMemory EXCEPT ![c] = withPatient[sid].turns]
                                 /\ bot_instances' = [withPatient EXCEPT ![sid].turns = @ \cup {c}]

\* app.py:87-102: POST /reset, with patient_history_chatbot.py:79-83
Reset(c, header, clear_patient) ==
    /\ Request(c, header)
    /\ UNCHANGED replyMemory
    /\ LET sid == SessionSid(c, header) IN
       /\ bot_instances' = [BotsAfterGet(sid) EXCEPT ![sid].turns = {}]
       /\ flask_session' = [flask_session EXCEPT ![c] =
                               [sid |-> sid,
                                patient_id |-> IF clear_patient THEN 0 ELSE @.patient_id]]

----------------------------------------------------------------------------
(* Two populate runs, each on its own connection, working on the same tables:  *)
(* the SELECT and the INSERT of insert_entity and insert_relationship are     *)
(* separate statements, and the tables carry no UNIQUE constraint             *)
(* (populate_graphrag_tables.py:154-162, 188-197)                             *)

PopulateRuns == {"r1", "r2"}
MaxConcurrentCalls == 3

NoArgs == [text |-> "", type |-> "", source_id |-> 0, target_id |-> 0, rel_type |-> ""]

ConcurrentIdle ==
    /\ runPc = [r \in PopulateRuns |-> "idle"]
    /\ runArgs = [r \in PopulateRuns |-> NoArgs]
    /\ runFound = [r \in PopulateRuns |-> FALSE]
    /\ concurrentCalls = 0

\* insert_entity, lines 264-268: the SELECT and fetchone
SelectEntity(r) ==
    /\ runPc[r] = "idle"
    /\ concurrentCalls < MaxConcurrentCalls
    /\ concurrentCalls' = concurrentCalls + 1
    /\ \E text \in EntityTexts, type \in EntityTypes :
        /\ runArgs' = [runArgs EXCEPT ![r] = [NoArgs EXCEPT !.text = text, !.type = type]]
        /\ runFound' = [runFound EXCEPT ![r] = MatchingRows(entities, text, type) # {}]
    /\ runPc' = [runPc EXCEPT ![r] = "entity_selected"]
    /\ UNCHANGED <<entityVars, relationVars>>
    /\ UNCHANGED <<chatVars, ingestVars, singletonVars, mappingVars, encounterVars,
                   importVars, populateVars, memoryVars, healthVars, appVars, traceVars, findVars, extractVars, limitedVars, repopulateVars>>

\* insert_entity, lines 269-281: return the existing id, or INSERT the row
InsertEntityRow(r) ==
    /\ runPc[r] = "entity_selected"
    /\ IF runFound[r]
       THEN UNCHANGED <<entities, identity>>
       ELSE /\ entities' = Append(entities, [EntityID |-> identity + 1,
                                             EntityText |-> runArgs[r].text,
                                             EntityType |-> runArgs[r].type])
            /\ identity' = identity + 1
    /\ runPc' = [runPc EXCEPT ![r] = "idle"]
    /\ UNCHANGED <<entityCalls, lastCall, relationVars, runArgs, runFound, concurrentCalls>>
    /\ UNCHANGED <<chatVars, ingestVars, singletonVars, mappingVars, encounterVars,
                   importVars, populateVars, memoryVars, healthVars, appVars, traceVars, findVars, extractVars, limitedVars, repopulateVars>>

\* insert_relationship, lines 290-296: the SELECT and fetchone
SelectRelationship(r) ==
    /\ runPc[r] = "idle"
    /\ concurrentCalls < MaxConcurrentCalls
    /\ concurrentCalls' = concurrentCalls + 1
    /\ \E source_id \in RelEntityIds, target_id \in RelEntityIds, rel_type \in RelTypes :
        /\ runArgs' = [runArgs EXCEPT ![r] = [NoArgs EXCEPT !.source_id = source_id,
                                                            !.target_id = target_id,
                                                            !.rel_type = rel_type]]
        /\ runFound' = [runFound EXCEPT ![r] =
               MatchingRelationships(relationships, source_id, target_id, rel_type) # {}]
    /\ runPc' = [runPc EXCEPT ![r] = "relationship_selected"]
    /\ UNCHANGED <<entityVars, relationVars>>
    /\ UNCHANGED <<chatVars, ingestVars, singletonVars, mappingVars, encounterVars,
                   importVars, populateVars, memoryVars, healthVars, appVars, traceVars, findVars, extractVars, limitedVars, repopulateVars>>

\* insert_relationship, lines 297-304: return False, or INSERT the row
InsertRelationshipRow(r) ==
    /\ runPc[r] = "relationship_selected"
    /\ IF runFound[r]
       THEN UNCHANGED <<relationships, relIdentity>>
       ELSE /\ relationships' = Append(relationships,
                                       [RelationshipID |-> relIdentity + 1,
                                        SourceEntityID |-> runArgs[r].source_id,
                                        TargetEntityID |-> runArgs[r].target_id,
                                        RelationshipType |-> runArgs[r].rel_type])
            /\ relIdentity' = relIdentity + 1
    /\ runPc' = [runPc EXCEPT ![r] = "idle"]
    /\ UNCHANGED <<relCalls, lastRelCall, entityVars, runArgs, runFound, concurrentCalls>>
    /\ UNCHANGED <<chatVars, ingestVars, singletonVars, mappingVars, encounterVars,
                   importVars, populateVars, memoryVars, healthVars, appVars, traceVars, findVars, extractVars, limitedVars, repopulateVars>>

----------------------------------------------------------------------------
(* find_dicom_files: ingest_mimic_cxr.py:105-148                           *)

\* ingest_mimic_cxr.py:64
MAX_FILE_SIZE_MB == 100

\* ingest_mimic_cxr.py:127: max_bytes
MaxBytes == MAX_FILE_SIZE_MB * 1024 * 1024

\* limit=None
NoLimit == -1

MaxTreeFiles == 3

\* the kinds of file a tree can hold: the suffix, the size in bytes and whether
\* stat() raises OSError on it
TreeFiles ==
    { [dcm |-> FALSE, size |-> 1, stat_fails |-> FALSE],
      [dcm |-> TRUE, size |-> 1, stat_fails |-> FALSE],
      [dcm |-> TRUE, size |-> MaxBytes, stat_fails |-> FALSE],
      [dcm |-> TRUE, size |-> MaxBytes + 1, stat_fails |-> FALSE],
      [dcm |-> TRUE, size |-> MaxBytes + 1, stat_fails |-> TRUE] }

FindIdle ==
    /\ tree = <<>>
    /\ limit_arg = NoLimit
    /\ skip_large = TRUE
    /\ dicom_files = <<>>
    /\ skipped_large = 0
    /\ findPc = "idle"

\* ingest_mimic_cxr.py:141: `if limit and len(dicom_files) >= limit`; None and 0
\* are both false
LimitReached(limit, found) == limit # NoLimit /\ limit # 0 /\ Len(found) >= limit

\* ingest_mimic_cxr.py:131-138: the file is skipped when its size can be read and
\* is above max_bytes
TooLarge(f, skip) == skip /\ ~f.stat_fails /\ f.size > MaxBytes

\* ingest_mimic_cxr.py:129-142: the loop over base.rglob("*.dcm") from the k-th
\* file of the tree on; the result is [files, skipped]
RECURSIVE FindFrom(_, _, _, _, _, _)
FindFrom(fs, k, limit, skip, found, skipped) ==
    IF k > Len(fs) THEN [files |-> found, skipped |-> skipped]
    ELSE IF ~fs[k].dcm THEN FindFrom(fs, k + 1, limit, skip, found, skipped)
    ELSE IF TooLarge(fs[k], skip) THEN FindFrom(fs, k + 1, limit, skip, found, skipped + 1)
    ELSE LET found2 == Append(found, fs[k])
         IN  IF LimitReached(limit, found2) THEN [files |-> found2, skipped |-> skipped]
             ELSE FindFrom(fs, k + 1, limit, skip, found2, skipped)

\* find_dicom_files(base_path, limit, skip_large)
FindDicomFiles ==
    /\ findPc = "called"
    /\ LET r == FindFrom(tree, 1, limit_arg, skip_large, <<>>, 0)
       IN  /\ dicom_files' = r.files
           /\ skipped_large' = r.skipped
    /\ findPc' = "returned"
    /\ UNCHANGED <<tree, limit_arg, skip_large>>
    /\ UNCHANGED <<chatVars, ingestVars, singletonVars, entityVars, relationVars,
                   mappingVars, encounterVars, importVars, populateVars, memoryVars,
                   healthVars, appVars, concurrentVars, traceVars, extractVars, limitedVars, repopulateVars>>

----------------------------------------------------------------------------
(* extract_metadata_from_path: ingest_mimic_cxr.py:151-183                 *)

\* a path component with what the code reads of it: its first character and its
\* length
Part(text, first, len) == [text |-> text, first |-> first, len |-> len]

\* directories that can precede the canonical part of a path
LeadingDirs ==
    { Part("data", "d", 4), Part("files", "f", 5), Part("physionet", "p", 9),
      Part("scans", "s", 5) }

\* .../p10/p10000032/s50000001/
CanonicalDirs == <<Part("p10", "p", 3), Part("p10000032", "p", 9), Part("s50000001", "s", 9)>>

\* file names, with their stem in `text`
FileNames == { Part("img_a", "i", 9), Part("02aa804e", "0", 12) }

MaxLeadingDirs == 2

NoMetadata == [subject_id |-> "", study_id |-> "", image_id |-> ""]

ExtractIdle ==
    /\ dcm_path = <<>>
    /\ metadata = NoMetadata

\* ingest_mimic_cxr.py:168-169: the index of the first component that starts
\* with 'p' and is 9 characters long, 0 when there is none
RECURSIVE FirstPatientFolder(_, _)
FirstPatientFolder(parts, k) ==
    IF k > Len(parts) THEN 0
    ELSE IF parts[k].first = "p" /\ parts[k].len = 9 THEN k
    ELSE FirstPatientFolder(parts, k + 1)

\* ingest_mimic_cxr.py:163-183
ExtractMetadata(parts) ==
    LET k == FirstPatientFolder(parts, 1)
    IN  [subject_id |-> IF k = 0 THEN "unknown" ELSE parts[k].text,
         study_id |-> IF k # 0 /\ k + 1 <= Len(parts) /\ parts[k + 1].first = "s"
                      THEN parts[k + 1].text ELSE "unknown",
         image_id |-> parts[Len(parts)].text]

ExtractMetadataFromPath ==
    /\ dcm_path # <<>>
    /\ metadata = NoMetadata
    /\ metadata' = ExtractMetadata(dcm_path)
    /\ UNCHANGED dcm_path
    /\ UNCHANGED <<chatVars, ingestVars, singletonVars, entityVars, relationVars,
                   mappingVars, encounterVars, importVars, populateVars, memoryVars,
                   healthVars, appVars, concurrentVars, traceVars, findVars, limitedVars, repopulateVars>>

----------------------------------------------------------------------------
(* Repeated runs of ingest_mimic_cxr with a limit and skip_existing=True     *)
(* over an unchanging source: find_dicom_files applies the limit (line 644) *)
(* before the filter of lines 678-687 drops the images already ingested     *)

MaxSourceFiles == 5
MaxLimit == 4

\* a source of n small .dcm files, in rglob order
LimitedSource(n) == [k \in 1..n |-> [dcm |-> TRUE, size |-> 1, stat_fails |-> FALSE, image_id |-> k]]

NoRun == [processed |-> 0, missing |-> 0]

LimitedIdle ==
    /\ image_rows = {}
    /\ checkpoint_ids = {}
    /\ lastRun = NoRun

\* ingest_mimic_cxr(source, limit=limit, skip_existing=se), lines 643-769, in a
\* run where the INSERT of every image that has no row succeeds: discovery with
\* the limit, the checkpoint loaded when se is true (line 662), the filter, the
\* inserts, and the checkpoint saved at line 769 unless there was nothing to
\* process (lines 692-694)
RunOnce(limit, se) ==
    /\ tree # <<>>
    /\ LET found == FindFrom(tree, 1, limit, TRUE, <<>>, 0).files
           loaded == IF se THEN checkpoint_ids ELSE {}
           todo == FilesToProcess(found, se, image_rows, loaded)
       IN  /\ dicom_files' = found
           /\ image_rows' = image_rows \cup IdsOf(todo)
           /\ checkpoint_ids' = IF todo = <<>> THEN checkpoint_ids
                                ELSE AddProcessed(loaded, IdsOf(todo))
           /\ lastRun' = [processed |-> Len(todo),
                          missing |-> Cardinality(IdsOf(tree) \ image_rows)]
    /\ UNCHANGED <<tree, skip_large, skipped_large, findPc>>
    /\ UNCHANGED <<chatVars, ingestVars, singletonVars, entityVars, relationVars,
                   mappingVars, encounterVars, importVars, populateVars, memoryVars,
                   healthVars, appVars, concurrentVars, traceVars, extractVars, repopulateVars>>

\* a run with the limit of the runs before it and skip_existing=True
LimitedRun == RunOnce(limit_arg, TRUE) /\ UNCHANGED limit_arg

\* a run with any limit, or none, and either value of skip_existing
AnyRun ==
    \E limit \in {NoLimit} \cup (1..MaxLimit), se \in BOOLEAN :
        RunOnce(limit, se) /\ limit_arg' = limit

----------------------------------------------------------------------------
(* The specifications of the ingestion                                     *)

LibIdle == SingletonIdle /\ EntitiesIdle /\ RelationshipsIdle /\ MappingsIdle /\ EncountersIdle /\ ImportIdle /\ PopulateIdle /\ MemoryIdle /\ HealthIdle /\ AppIdle /\ ConcurrentIdle /\ TraceIdle /\ FindIdle /\ ExtractIdle /\ LimitedIdle /\ RepopulateIdle

Init ==
    /\ ChatInit /\ StoreInit(SmallSources, TRUE, 1..MaxFiles, SchemaObjects) /\ IngestIdle
    /\ LibIdle

Next ==
    \/ StartRun
    \/ AllProcessed
    \/ IngestBatch
    \/ FhirImage
    \/ UpdateCheckpoint
    \/ FinishRun
    \/ Interrupt
    \/ SaveCheckpointInterrupted

Spec == Init /\ [][Next]_vars

LargeInit ==
    /\ ChatInit /\ StoreInit({LargeSource}, FALSE, {1}, SchemaObjects) /\ IngestIdle
    /\ LibIdle

LargeNext ==
    \/ StartRunLarge
    \/ AllProcessed
    \/ IngestBatch
    \/ UpdateCheckpoint
    \/ FinishRun
    \/ Interrupt
    \/ SaveCheckpointInterrupted

LargeSpec == LargeInit /\ [][LargeNext]_vars

----------------------------------------------------------------------------
(* The start of a run, step by step: ingest_mimic_cxr.py:623-662           *)

\* ingest_mimic_cxr.py:629-631, 85-88: get_embedder_with_retry is entered
BeginRun ==
    /\ pc = "idle"
    /\ runs < MaxRuns
    /\ runs' = runs + 1
    /\ \E NVCLIP_AVAILABLE \in BOOLEAN :
        IF NVCLIP_AVAILABLE
        THEN pc' = "embedder" /\ embedder' = "unset"
        ELSE pc' = "connect" /\ embedder' = "none"
    /\ UNCHANGED <<embedderLog, connLog>>
    /\ UNCHANGED <<batch_size, skip_existing, dry_run, fhir_adapter, files_to_process,
                   batch_start, processed_ids, total_success, total_error, fhir_created,
                   fhir_skipped, success, errors, commits, fhirIdx>>
    /\ UNCHANGED <<files, table, ckptFile, fhirPatients, fhirStudies, prevEnd, errBudget,
                   failRows, rowsAtInterrupt, lastSave, putLog, schema>>
    /\ UNCHANGED <<logVars, chatVars, libVars>>

\* get_embedder_with_retry, lines 90-100: one iteration of the loop. The
\* constructor raises, or check_nvclip_health returns False, or the embedder is
\* healthy; time.sleep is called only in the except branch.
EmbedderAttempt ==
    /\ pc = "embedder"
    /\ \E outcome \in {"healthy", "unhealthy", "raises"} :
        LET attempt == Len(embedderLog)
            slept == IF outcome = "raises" /\ attempt < MAX_RETRIES - 1
                     THEN RetryDelay(attempt) ELSE 0
        IN  /\ embedderLog' = Append(embedderLog, [outcome |-> outcome, slept |-> slept])
            /\ IF outcome = "healthy"
               THEN embedder' = "live" /\ pc' = "connect"
               ELSE IF attempt + 1 < MAX_RETRIES
               THEN UNCHANGED <<embedder, pc>>
               ELSE embedder' = "none" /\ pc' = "connect"
    /\ UNCHANGED connLog
    /\ UNCHANGED <<batch_size, skip_existing, dry_run, fhir_adapter, files_to_process,
                   batch_start, processed_ids, total_success, total_error, fhir_created,
                   fhir_skipped, success, errors, commits, fhirIdx>>
    /\ UNCHANGED <<storeVars, logVars, chatVars, libVars>>

\* get_connection_with_retry, lines 242-255: one iteration of the loop; after
\* the last failure ConnectionError is raised (line 257) and leaves
\* ingest_mimic_cxr at line 651
ConnectionAttempt ==
    /\ pc = "connect"
    /\ \E outcome \in {"connected", "raises"} :
        LET attempt == Len(connLog)
            slept == IF outcome = "raises" /\ attempt < MAX_RETRIES - 1
                     THEN RetryDelay(attempt) ELSE 0
        IN  /\ connLog' = Append(connLog, [outcome |-> outcome, slept |-> slept])
            /\ pc' = IF outcome = "connected" THEN "ensure"
                     ELSE IF attempt + 1 < MAX_RETRIES THEN "connect"
                     ELSE "failed"
    /\ UNCHANGED <<embedder, embedderLog>>
    /\ UNCHANGED <<batch_size, skip_existing, dry_run, fhir_adapter, files_to_process,
                   batch_start, processed_ids, total_success, total_error, fhir_created,
                   fhir_skipped, success, errors, commits, fhirIdx>>
    /\ UNCHANGED <<storeVars, logVars, chatVars, libVars>>

\* ingest_mimic_cxr.py:657: ensure_vectorsearch_table_exists(cursor, conn);
\* every statement that raises is one of the failures of the scenario
EnsureTable ==
    /\ pc = "ensure"
    /\ \E raising \in SUBSET EnsureStatements :
        /\ Cardinality(raising) <= errBudget
        /\ errBudget' = errBudget - Cardinality(raising)
        /\ schema' = EnsureVectorSearchTableExists(schema, raising)
    /\ pc' = "begin"
    /\ UNCHANGED <<embedder, embedderLog, connLog>>
    /\ UNCHANGED <<batch_size, skip_existing, dry_run, fhir_adapter, files_to_process,
                   batch_start, processed_ids, total_success, total_error, fhir_created,
                   fhir_skipped, success, errors, commits, fhirIdx>>
    /\ UNCHANGED <<files, table, ckptFile, fhirPatients, fhirStudies, runs, prevEnd,
                   failRows, rowsAtInterrupt, lastSave, putLog>>
    /\ UNCHANGED <<logVars, chatVars, libVars>>

\* ingest_mimic_cxr.py:660-694 with the defaults (skip_existing) and the batch
\* size of scenario 1: without the table the SELECT of line 672 raises
LoadAndFilter ==
    /\ pc = "begin"
    /\ IF "MIMICCXRImages" \in schema
       THEN /\ BeginBatches({2}, {TRUE}, {FALSE}, {FALSE})
            /\ embedderLog' = <<>>
            /\ connLog' = <<>>
            /\ UNCHANGED <<embedder, runs>>
       ELSE /\ pc' = "failed"
            /\ UNCHANGED <<embedder, embedderLog, connLog>>
            /\ UNCHANGED <<batch_size, skip_existing, dry_run, fhir_adapter, files_to_process,
                           batch_start, processed_ids, total_success, total_error,
                           fhir_created, fhir_skipped, success, errors, commits, fhirIdx>>
            /\ UNCHANGED <<storeVars, logVars, chatVars, libVars>>

\* the exception leaves ingest_mimic_cxr: the run is over
RunFails ==
    /\ pc = "failed"
    /\ RunLocalsReset
    /\ prevEnd' = "failed"
    /\ UNCHANGED <<files, table, ckptFile, fhirPatients, fhirStudies, runs, errBudget,
                   failRows, rowsAtInterrupt, lastSave, putLog, schema>>
    /\ UNCHANGED <<chatVars, libVars>>

StartupInit ==
    /\ ChatInit
    /\ StoreInit({[k \in 1..MaxFiles |-> ScenarioFile(k)]}, FALSE, 1..MaxFiles, {})
    /\ IngestIdle
    /\ LibIdle

StartupNext ==
    \/ BeginRun
    \/ EmbedderAttempt
    \/ ConnectionAttempt
    \/ EnsureTable
    \/ LoadAndFilter
    \/ RunFails
    \/ AllProcessed
    \/ IngestBatch
    \/ UpdateCheckpoint
    \/ FinishRun

StartupSpec == StartupInit /\ [][StartupNext]_vars

----------------------------------------------------------------------------
(* The specification of ChatCLI.query: one ChatCLI, one query              *)
(* (run_chat_cli, chat.py:260-263)                                         *)

ChatSpecInit ==
    /\ ChatInit
    /\ files = <<>>
    /\ table = <<>>
    /\ ckptFile = NoFile
    /\ fhirPatients = {}
    /\ fhirStudies = {}
    /\ runs = 0
    /\ prevEnd = "none"
    /\ errBudget = 0
    /\ failRows = {}
    /\ rowsAtInterrupt = {}
    /\ lastSave = [before |-> NoFile, ids |-> {}]
    /\ putLog = <<>>
    /\ schema = {}
    /\ IngestIdle
    /\ LibIdle

ChatSpec == ChatSpecInit /\ [][ChatNext]_vars

----------------------------------------------------------------------------
(* The specifications of get_embedder and of RAG.Entities                  *)

GetEmbedderNext ==
    \E t \in Threads :
        \/ CheckEmbedder(t)
        \/ ConstructEmbedder(t)
        \/ AssignEmbedder(t)
        \/ ReturnEmbedder(t)

GetEmbedderSpec == ChatSpecInit /\ [][GetEmbedderNext]_vars

EntitiesNext ==
    \/ InsertEntityCall
    \/ RecreateEntitiesTable

EntitiesSpec == ChatSpecInit /\ [][EntitiesNext]_vars

RelationshipsNext ==
    \/ InsertRelationshipCall
    \/ RecreateRelationshipsTable

RelationshipsSpec == ChatSpecInit /\ [][RelationshipsNext]_vars

MappingsNext ==
    \/ StartImportMappings
    \/ ImportSubjectMapping
    \/ FinishImportMappings

MappingsSpec == ChatSpecInit /\ [][MappingsNext]_vars

\* the patient's Encounters and the study time of one lookup
EncounterInit ==
    /\ ChatInit /\ StoreInit({<<>>}, FALSE, {}, {}) /\ IngestIdle
    /\ SingletonIdle /\ EntitiesIdle /\ RelationshipsIdle /\ MappingsIdle /\ ImportIdle /\ PopulateIdle /\ MemoryIdle /\ HealthIdle /\ AppIdle /\ ConcurrentIdle /\ TraceIdle /\ FindIdle /\ ExtractIdle /\ LimitedIdle /\ RepopulateIdle
    /\ encounters \in SUBSET CandidateEncounters
    /\ study_datetime \in StudyTimes
    /\ matched = [called |-> FALSE, id |-> <<>>]

EncounterNext == LookupEncounter

EncounterSpec == EncounterInit /\ [][EncounterNext]_vars

\* the table after an ingestion of the three files of scenario 1, a FHIR server
\* that holds some of the ImagingStudies, and a patient with or without an
\* Encounter at the time of the import
ImportInit ==
    /\ ChatInit /\ IngestIdle
    /\ files = [k \in 1..3 |-> ScenarioFile(k)]
    /\ table = [id \in IdsOf(files) |->
                   [n |-> 1, fhir |-> None, subject_id |-> files[id].subject_id,
                    study_id |-> files[id].study_id]]
    /\ ckptFile = SaveCheckpoint(IdsOf(files))
    /\ fhirPatients = {1}
    /\ fhirStudies \in SUBSET StudiesOf(files)
    /\ runs = 1
    /\ prevEnd = "completed"
    /\ errBudget = MaxErrors
    /\ failRows = {}
    /\ rowsAtInterrupt = {}
    /\ lastSave = [before |-> NoFile, ids |-> IdsOf(files)]
    /\ putLog = [st \in StudiesOf(files) |-> [n |-> 0, onExisting |-> 0]]
    /\ schema = SchemaObjects
    /\ SingletonIdle /\ EntitiesIdle /\ RelationshipsIdle /\ MappingsIdle /\ ImportIdle /\ PopulateIdle /\ MemoryIdle /\ HealthIdle /\ AppIdle /\ ConcurrentIdle /\ TraceIdle /\ FindIdle /\ ExtractIdle /\ LimitedIdle /\ RepopulateIdle
    /\ encounters \in {{}, {[id |-> <<9>>, start |-> 11, end |-> 13]}}
    /\ study_datetime = 0
    /\ matched = [called |-> FALSE, id |-> <<>>]

ImportNext == CreateImagingStudiesForSubject

ImportSpec == ImportInit /\ [][ImportNext]_vars

PopulateNext ==
    \/ StartPopulate
    \/ PopulateCondition
    \/ PopulateRelatedEntity
    \/ PopulateComorbidity

\* populate_data on empty tables
PopulateSpec == ChatSpecInit /\ [][PopulateNext]_vars

\* a ChatCLI whose memory holds some items when query is called
RecallInit ==
    /\ ChatInit
    /\ StoreInit({<<>>}, FALSE, {}, {}) /\ IngestIdle
    /\ SingletonIdle /\ EntitiesIdle /\ RelationshipsIdle /\ MappingsIdle /\ EncountersIdle /\ HealthIdle /\ AppIdle /\ ConcurrentIdle /\ TraceIdle /\ FindIdle /\ ExtractIdle /\ LimitedIdle /\ RepopulateIdle
    /\ ImportIdle /\ PopulateIdle
    /\ memory_store \in SUBSET CandidateMemories
    /\ memories = <<>>

RecallNext == QueryStart

RecallSpec == RecallInit /\ [][RecallNext]_vars

\* check_health_command is called with some arguments in some environment
HealthInit ==
    /\ ChatInit
    /\ StoreInit({<<>>}, FALSE, {}, {}) /\ IngestIdle
    /\ SingletonIdle /\ EntitiesIdle /\ RelationshipsIdle /\ MappingsIdle /\ EncountersIdle /\ AppIdle /\ ConcurrentIdle /\ TraceIdle /\ FindIdle /\ ExtractIdle /\ LimitedIdle /\ RepopulateIdle
    /\ ImportIdle /\ PopulateIdle /\ MemoryIdle
    /\ healthPc = "smoke"
    /\ smoke_test_arg \in BOOLEAN
    /\ smoke_raises \in BOOLEAN
    /\ check_results \in UNION {[1..n -> HealthStatuses] : n \in 0..MaxChecks}
    /\ checks_raise \in BOOLEAN
    /\ smoke_test_result = "none"
    /\ report_status = "none"
    /\ exit_code = -1

HealthNext == RunSmokeTest \/ RunChecksAndExit

HealthSpec == HealthInit /\ [][HealthNext]_vars

\* the front-end has just started; every client has its address
AppInit ==
    /\ ChatInit
    /\ StoreInit({<<>>}, FALSE, {}, {}) /\ IngestIdle
    /\ SingletonIdle /\ EntitiesIdle /\ RelationshipsIdle /\ MappingsIdle /\ EncountersIdle /\ ConcurrentIdle /\ TraceIdle /\ FindIdle /\ ExtractIdle /\ LimitedIdle /\ RepopulateIdle
    /\ ImportIdle /\ PopulateIdle /\ MemoryIdle /\ HealthIdle
    /\ flask_session = [c \in Clients |-> [sid |-> "none", patient_id |-> 0]]
    /\ bot_instances = [s \in HeaderIds \cup RemoteAddrs \cup {"anon"} |-> NoBot]
    /\ remote_addr \in [Clients -> RemoteAddrs \cup {"none"}]
    /\ headersSent = [c \in Clients |-> {}]
    /\ replyMemory = [c \in Clients |-> {}]
    /\ appRequests = 0

AppNext ==
    \E c \in Clients, header \in HeaderIds \cup {"none"} :
        \/ \E valid \in BOOLEAN, pid \in PatientIds : SetPatient(c, header, valid, pid)
        \/ \E empty, do_search, raises \in BOOLEAN : Chat(c, header, empty, do_search, raises)
        \/ \E clear_patient \in BOOLEAN : Reset(c, header, clear_patient)

AppSpec == AppInit /\ [][AppNext]_vars

ConcurrentNext ==
    \E r \in PopulateRuns :
        \/ SelectEntity(r)
        \/ InsertEntityRow(r)
        \/ SelectRelationship(r)
        \/ InsertRelationshipRow(r)

ConcurrentSpec == ChatSpecInit /\ [][ConcurrentNext]_vars

\* query is called with either value of verbose (`chat --quiet` passes False)
TraceInit ==
    /\ ChatInit
    /\ files = <<>>
    /\ table = <<>>
    /\ ckptFile = NoFile
    /\ fhirPatients = {}
    /\ fhirStudies = {}
    /\ runs = 0
    /\ prevEnd = "none"
    /\ errBudget = 0
    /\ failRows = {}
    /\ rowsAtInterrupt = {}
    /\ lastSave = [before |-> NoFile, ids |-> {}]
    /\ putLog = <<>>
    /\ schema = {}
    /\ IngestIdle
    /\ SingletonIdle /\ EntitiesIdle /\ RelationshipsIdle /\ MappingsIdle /\ EncountersIdle /\ FindIdle /\ ExtractIdle /\ LimitedIdle /\ RepopulateIdle
    /\ ImportIdle /\ PopulateIdle /\ MemoryIdle /\ HealthIdle /\ AppIdle /\ ConcurrentIdle
    /\ verbose \in BOOLEAN
    /\ trace = <<>>

TraceSpec == TraceInit /\ [][ChatNext]_vars

\* find_dicom_files is called as ingest_mimic_cxr calls it (line 644), on some
\* tree and with some limit
FindInit ==
    /\ ChatInit
    /\ StoreInit({<<>>}, FALSE, {}, {}) /\ IngestIdle
    /\ SingletonIdle /\ EntitiesIdle /\ RelationshipsIdle /\ MappingsIdle /\ EncountersIdle /\ ImportIdle /\ ExtractIdle /\ LimitedIdle /\ RepopulateIdle
    /\ PopulateIdle /\ MemoryIdle /\ HealthIdle /\ AppIdle /\ ConcurrentIdle /\ TraceIdle
    /\ tree \in UNION {[1..n -> TreeFiles] : n \in 0..MaxTreeFiles}
    /\ limit_arg \in {NoLimit} \cup (0..2)
    /\ skip_large = TRUE
    /\ dicom_files = <<>>
    /\ skipped_large = 0
    /\ findPc = "called"

FindNext == FindDicomFiles

FindSpec == FindInit /\ [][FindNext]_vars

\* a file on a canonical path below some directories, or a file outside the
\* canonical layout
ExtractInit ==
    /\ ChatInit
    /\ StoreInit({<<>>}, FALSE, {}, {}) /\ IngestIdle
    /\ SingletonIdle /\ EntitiesIdle /\ RelationshipsIdle /\ MappingsIdle /\ EncountersIdle /\ ImportIdle /\ LimitedIdle /\ RepopulateIdle
    /\ PopulateIdle /\ MemoryIdle /\ HealthIdle /\ AppIdle /\ ConcurrentIdle /\ TraceIdle /\ FindIdle
    /\ \E lead \in UNION {[1..n -> LeadingDirs] : n \in 0..MaxLeadingDirs},
          canonical \in BOOLEAN, name \in FileNames :
           dcm_path = lead \o (IF canonical THEN CanonicalDirs ELSE <<>>) \o <<name>>
    /\ metadata = NoMetadata

ExtractNext == ExtractMetadataFromPath

ExtractSpec == ExtractInit /\ [][ExtractNext]_vars

\* a source of some files, the first ones ingested (and checkpointed) by an
\* earlier run, and the limit of the runs to come
LimitedInit ==
    /\ ChatInit
    /\ StoreInit({<<>>}, FALSE, {}, {}) /\ IngestIdle
    /\ SingletonIdle /\ EntitiesIdle /\ RelationshipsIdle /\ MappingsIdle /\ EncountersIdle /\ ImportIdle /\ RepopulateIdle
    /\ PopulateIdle /\ MemoryIdle /\ HealthIdle /\ AppIdle /\ ConcurrentIdle /\ TraceIdle /\ ExtractIdle
    /\ \E n \in 1..MaxSourceFiles : tree = LimitedSource(n)
    /\ limit_arg \in 1..MaxLimit
    /\ skip_large = TRUE
    /\ dicom_files = <<>>
    /\ skipped_large = 0
    /\ findPc = "idle"
    /\ \E m \in 0..Len(tree) : image_rows = 1..m
    /\ checkpoint_ids = image_rows
    /\ lastRun = NoRun

LimitedNext == LimitedRun

\* the runs are repeated for ever
LimitedSpec == LimitedInit /\ [][LimitedNext]_vars /\ WF_vars(LimitedRun)

CheckpointRunsNext == AnyRun

CheckpointRunsSpec == LimitedInit /\ [][CheckpointRunsNext]_vars

RepopulateNext == PopulateNext \/ StartPopulateAgain

RepopulateSpec == ChatSpecInit /\ [][RepopulateNext]_vars

----------------------------------------------------------------------------
(* Claims about ChatCLI.query, checked under ChatSpec                      *)

\* C2: in every call of query, whatever the LLM returns, the LLM is invoked at
\* most 10 times and tool calls are executed in at most 10 iterations.
C2_AtMostTenIterations == llmCalls <= 10 /\ toolIters <= 10

\* a query that used every iteration for tool calls and hit the cap
C2_Witness == chatPc = "done" /\ llmCalls = 10 /\ toolIters = 10 /\ emitted = "max_iterations"

\* C3: query ends in one of two ways: at the first LLM response that is a terminal
\* assistant message (one that asks for no tool, whatever its stop reason) it emits
\* that message and makes no further LLM call; otherwise, at the cap of 10
\* iterations, it emits the "Reached maximum iterations" message.
C3_EndsAtFirstTerminalMessage ==
    /\ firstTerminal # 0 => llmCalls = firstTerminal /\ chatPc = "done" /\ emitted = "assistant"
    /\ (chatPc = "done" /\ firstTerminal = 0) => emitted = "max_iterations" /\ llmCalls = 10

\* C4: a failing tool invocation (call_tool raises, or its result cannot be
\* decoded) does not raise out of query.
C4_ToolErrorsAreNotRaised == ~(chatPc = "raised" /\ raisedBy \in {"call_tool", "json_loads"})

----------------------------------------------------------------------------
(* Claims about the ingestion pipeline, checked under Spec and LargeSpec   *)

\* C1: the image table never holds two rows with the same image id, and a run with
\* skip_existing over a source whose images all have a row inserts no row.
C1_OneRowPerImage ==
    /\ \A id \in DOMAIN table : table[id].n <= 1
    /\ (pc # "idle" /\ skip_existing /\ allPresent) => newRows = 0

\* a second run over the three files, all inserted by the first one
C1_Witness ==
    /\ pc = "all_done" /\ skip_existing /\ ~dry_run /\ allPresent
    /\ Len(files) = 3 /\ runs = 2

\* C6: no FHIR patient lookup, ImagingStudy PUT, FHIR counter increment or
\* fhir_resource_id update is performed for an image whose row insert errored.
C6_OnlyInsertedImagesReachFhir == \A op \in fhirOps : op[1] \notin erroredPos

\* C7: in ingest_batch (not dry-run) every row of the batch is attempted,
\* success_count + error_count is the batch size, the rows that did not fail are
\* committed, and commit is called once per batch.
C7_RowFailureDoesNotAbortBatch ==
    (pc \in {"fhir", "ckpt"} /\ ~dry_run) =>
        LET raised == {k \in DOMAIN BatchFiles : batch_start + k \in erroredPos}
        IN  /\ success + errors = Len(BatchFiles)
            /\ errors = Cardinality(raised)
            /\ \A k \in DOMAIN BatchFiles \ raised : table[BatchFiles[k].image_id].n >= 1
            /\ commits = (batch_start \div batch_size) + 1

\* a batch of two rows: one INSERT raised, the other row is committed
C7_Witness ==
    /\ pc = "ckpt" /\ ~dry_run /\ Len(BatchFiles) = 2
    /\ errors = 1 /\ success = 1 /\ newRows = 1

\* C8: after a run was interrupted, in the rerun with skip_existing every image has
\* at most one row, every row committed before the interruption is still there,
\* and every image that has no row is processed by the rerun.
C8_RerunProcessesEveryMissingImage ==
    (prevEnd = "interrupted" /\ pc # "idle" /\ skip_existing) =>
        /\ \A id \in DOMAIN table : table[id].n <= 1
        /\ rowsAtInterrupt \subseteq ExistingIds(table)
        /\ skippedMissing = {}

\* C9: within a run the checkpoint set only grows, from batch to batch, and every
\* checkpoint the run persists (every save_checkpoint that runs to its end) holds
\* the checkpoint it loaded and the one it persisted before.
C9_CheckpointOnlyGrows ==
    [][pc # "idle" =>
         /\ pc' # "idle" => processed_ids \subseteq processed_ids'
         /\ (ckptFile' # ckptFile /\ ~ckptFile'.torn) =>
              /\ ckptFile'.exists
              /\ loaded_ids \subseteq ckptFile'.ids
              /\ saved => ckptFile.ids \subseteq ckptFile'.ids]_vars

\* a rerun that loaded a checkpoint of 100 images is about to persist a larger one
C9_Witness ==
    /\ pc = "final" /\ skip_existing /\ Cardinality(loaded_ids) >= 100
    /\ loaded_ids # processed_ids

\* C10: whenever the count of processed images reaches or passes a further
\* multiple of 100, the updated set is in the checkpoint file before the next
\* batch begins.
C10_CheckpointEvery100Images ==
    (/\ pc = "batch"
     /\ batch_start > 0
     /\ batch_start \div 100 > (batch_start - batch_size) \div 100)
        => ckptFile = SaveCheckpoint(processed_ids)

\* C11: if the process stops during save_checkpoint and a checkpoint existed
\* before, the file afterwards holds the complete previous set or the complete
\* new set: load_checkpoint returns one of the two.
C11_SaveCheckpointIsAtomic ==
    (lastSave.before.exists /\ ~lastSave.before.torn) =>
        /\ ckptFile.exists
        /\ LoadCheckpoint(ckptFile) \in {LoadCheckpoint(lastSave.before), lastSave.ids}

\* C12 as stated (read before the second batch of a run, when the table and the
\* checkpoint file are as they were when the run began): the files a run processes are the discovered files minus the
\* ids of the checkpoint file and, when skip_existing is true, the ids of the
\* table; the checkpoint is excluded for either value of skip_existing.
C12_CheckpointAlwaysExcluded ==
    (pc \in {"all_done", "batch"} /\ batch_start = 0) =>
        LET excluded == LoadCheckpoint(ckptFile)
                        \cup (IF skip_existing THEN ExistingIds(table) ELSE {})
        IN  files_to_process = SelectSeq(files, LAMBDA f : f.image_id \notin excluded)

\* C12 as amended: when skip_existing is true the files a run processes are the
\* discovered files, in order, whose id is neither in the checkpoint file nor
\* in the table; when it is false the checkpoint is not loaded and every
\* discovered file is processed.
C12_ProcessesDiscoveredMinusSkipped ==
    (pc \in {"all_done", "batch"} /\ batch_start = 0) =>
        LET excluded == LoadCheckpoint(ckptFile) \cup ExistingIds(table)
        IN  /\ skip_existing =>
                 files_to_process = SelectSeq(files, LAMBDA f : f.image_id \notin excluded)
            /\ ~skip_existing => files_to_process = files /\ processed_ids = {}

\* a run without skip_existing over a source whose images are in the checkpoint
\* and in the table
C12_Witness ==
    /\ pc = "batch" /\ batch_start = 0 /\ ~skip_existing
    /\ LoadCheckpoint(ckptFile) = IdsOf(files) /\ ExistingIds(table) # {}
    /\ Len(files) = 3 /\ files_to_process = files

\* C13: an ImagingStudy that exists on the FHIR server is never PUT again, by
\* ingestion or by the radiology import, and at most one PUT is issued per
\* study id over any sequence of runs.
C13_ExistingStudyNeverRecreated ==
    \A st \in DOMAIN putLog : putLog[st].onExisting = 0 /\ putLog[st].n <= 1

\* C14: with a live FHIR adapter, an image whose Patient is not found is counted
\* in fhir_skipped, gets no PUT and no FHIRResourceID update, and the run goes
\* on; every image handled by the FHIR loop increments exactly one of
\* fhir_created and fhir_skipped; a FHIRResourceID is written only with the id
\* of an ImagingStudy obtained from the server for the study of that image.
C14_MissingPatientIsSkipped ==
    (pc # "idle" /\ fhir_adapter = "live") =>
        LET handled == {op[1] : op \in fhirOps}
            created == {q \in handled : <<q, "created">> \in fhirOps}
            skipped == {q \in handled : <<q, "skipped">> \in fhirOps}
        IN  /\ \A q \in handled :
                 files_to_process[q].subject_id \notin fhirPatients =>
                     /\ q \in skipped
                     /\ <<q, "put">> \notin fhirOps
                     /\ <<q, "update">> \notin fhirOps
            /\ created \cap skipped = {} /\ created \cup skipped = handled
            /\ fhir_created = Cardinality(created)
            /\ fhir_skipped = Cardinality(skipped)
            /\ \A q \in handled : <<q, "update">> \in fhirOps => q \in created
            /\ \A id \in DOMAIN table :
                 table[id].fhir # None =>
                     /\ table[id].fhir \in fhirStudies
                     /\ \E k \in DOMAIN files :
                          /\ files[k].image_id = id
                          /\ files[k].study_id = table[id].fhir
                          /\ files[k].subject_id \in fhirPatients

\* the scenario with a live adapter: img_a and img_b are linked, the Patient of
\* img_c is not found, and the run is at its end
C14_Witness ==
    /\ pc = "final" /\ fhir_adapter = "live" /\ Len(files_to_process) = 3
    /\ DOMAIN table = {1, 2, 3}
    /\ fhir_created = 2 /\ fhir_skipped = 1
    /\ table[3].n = 1 /\ table[3].fhir = None /\ table[1].fhir # None

\* C15: when the FHIR server is unreachable (the adapter is in demo mode or
\* could not be constructed), every image is still processed and inserted, and
\* no Patient lookup request, no ImagingStudy PUT and no FHIRResourceID update
\* is made.
C15_DemoModeMakesNoFhirRequest ==
    (pc # "idle" /\ fhir_adapter # "live") =>
        /\ \A op \in fhirOps : op[2] = "skipped"
        /\ fhir_created = 0
        /\ pc = "final" =>
             /\ total_success + total_error = Len(files_to_process)
             /\ ~dry_run =>
                  \A q \in DOMAIN files_to_process :
                      q \notin erroredPos => table[files_to_process[q].image_id].n >= 1

\* a run with an adapter in demo mode has inserted the three images
C15_Witness ==
    /\ pc = "final" /\ fhir_adapter = "demo" /\ ~dry_run
    /\ newRows = 3 /\ fhir_skipped = 3 /\ erroredPos = {}

\* C17: get_embedder_with_retry makes at most three attempts and waits with
\* exponential backoff (2 s, then 4 s) after every failed attempt that is not the
\* last one, whether the constructor raised or the health check failed.
C17_BackoffAfterEveryFailedAttempt ==
    /\ Len(embedderLog) <= MAX_RETRIES
    /\ \A j \in 1..Len(embedderLog) :
        (embedderLog[j].outcome # "healthy" /\ j < MAX_RETRIES)
            => embedderLog[j].slept = RETRY_BASE_DELAY ^ j

\* C18: get_connection_with_retry makes at most three attempts, stops at the
\* first connection that passes the probe, sleeps 2 s after the first failure
\* and 4 s after the second and not after the third; after the third failure
\* the run has failed with no row inserted, no commit and no checkpoint written.
C18_ConnectionRetryThenHardFailure ==
    /\ Len(connLog) <= 3
    /\ \A j \in 1..Len(connLog) :
        /\ connLog[j].outcome = "connected" => j = Len(connLog) /\ connLog[j].slept = 0
        /\ connLog[j].outcome = "raises" =>
              connLog[j].slept = (IF j = 1 THEN 2 ELSE IF j = 2 THEN 4 ELSE 0)
    /\ (Len(connLog) = 3 /\ connLog[3].outcome = "raises") =>
          /\ pc = "failed"
          /\ newRows = 0 /\ commits = 0 /\ ~saved
          /\ files_to_process = <<>> /\ processed_ids = {}
    /\ (pc \in {"ensure", "begin"}) =>
          Len(connLog) >= 1 /\ connLog[Len(connLog)].outcome = "connected"

\* the third attempt of a later run has failed; the rows and the checkpoint of
\* the earlier run are as that run left them
C18_Witness ==
    /\ pc = "failed" /\ runs = 2 /\ prevEnd = "completed"
    /\ Len(connLog) = 3 /\ connLog[3].outcome = "raises"
    /\ ExistingIds(table) # {}
    /\ ckptFile = SaveCheckpoint(lastSave.ids)

\* C19: once the table exists, ensure_vectorsearch_table_exists changes no
\* object of the schema and no row; no step ever removes an object.
C19_EnsureTableIsIdempotent ==
    [][/\ schema \subseteq schema'
       /\ (pc = "ensure" /\ "MIMICCXRImages" \in schema) =>
             schema' = schema /\ table' = table]_vars

\* the second run has applied ensure_vectorsearch_table_exists to a schema whose
\* table holds rows and lacks an index that could not be created in the first run
C19_Witness ==
    /\ pc = "begin" /\ runs = 2
    /\ "MIMICCXRImages" \in schema /\ schema # SchemaObjects
    /\ ExistingIds(table) # {}

\* C16: under every interleaving of the threads that call get_embedder, the
\* embedder is constructed at most once and all calls that return an embedder
\* return the same instance.
C16_EmbedderConstructedOnce ==
    /\ constructions <= 1
    /\ Cardinality(returned \ {0}) <= 1

C21_RelationshipTripleUnique ==
    /\ \A k, m \in 1..Len(relationships) :
        (/\ relationships[k].SourceEntityID = relationships[m].SourceEntityID
         /\ relationships[k].TargetEntityID = relationships[m].TargetEntityID
         /\ relationships[k].RelationshipType = relationships[m].RelationshipType) => k = m
    /\ MatchingRelationships(lastRelCall.before, lastRelCall.source, lastRelCall.target,
                             lastRelCall.type) # {}
          => relationships = lastRelCall.before /\ lastRelCall.result = FALSE

\* the last insert_relationship call was for a triple that had a row, among
\* several rows
C21_Witness ==
    /\ Len(relationships) >= 2
    /\ MatchingRelationships(lastRelCall.before, lastRelCall.source, lastRelCall.target,
                             lastRelCall.type) # {}
    /\ lastRelCall.result = FALSE

\* C22: every MIMIC subject has at most one mapping, and a FHIR patient id given
\* to a subject by random_assignment is mapped to no other subject, whether the
\* other mapping was made earlier in the run, belongs to a subject later in the
\* list, or was made by a previous run.
C22_RandomAssignmentNeverReusesPatient ==
    \A r1, r2 \in mappings :
        /\ r1.MIMICSubjectID = r2.MIMICSubjectID => r1 = r2
        /\ (r1.MatchType = "random_assignment" /\ r1.FHIRPatientID = r2.FHIRPatientID)
              => r1.MIMICSubjectID = r2.MIMICSubjectID

\* C24: the lookup returns an encounter only if its interval meets
\* [study_datetime - 24 h, study_datetime + 24 h]; the one returned has the
\* smallest midpoint distance among those, and the lowest id in lexicographic
\* order among the nearest; none is returned exactly when no encounter meets
\* the window; of the encounters with midpoints 12 h and 30 h after the study
\* the 12 h one is returned.
C24_NearestEncounterInWindow ==
    matched.called =>
        LET InWindow(e) == /\ e.start <= study_datetime + 24
                           /\ e.end >= study_datetime - 24
            qualifying == {e \in encounters : InWindow(e)}
        IN  /\ matched.id = <<>> <=> qualifying = {}
            /\ matched.id # <<>> =>
                 \E m \in qualifying :
                    /\ m.id = matched.id
                    /\ \A e \in qualifying :
                        \/ MidpointDistance2(m, study_datetime)
                              < MidpointDistance2(e, study_datetime)
                        \/ /\ MidpointDistance2(m, study_datetime)
                                = MidpointDistance2(e, study_datetime)
                           /\ (e.id = m.id \/ LexLess(m.id, e.id))
            /\ (study_datetime = 0
                /\ encounters = {[id |-> <<9>>, start |-> 11, end |-> 13],
                                 [id |-> <<2>>, start |-> 29, end |-> 31]})
                  => matched.id = <<9>>

\* the lookup has chosen between two encounters that are as near to the study,
\* by id, while a third one is outside the window
C24_Witness ==
    /\ study_datetime = 0
    /\ matched.called /\ matched.id = <<1, 0>>
    /\ Cardinality(encounters) >= 3
    /\ [id |-> <<9>>, start |-> 11, end |-> 13] \in encounters
    /\ [id |-> <<2>>, start |-> 29, end |-> 31] \in encounters

\* C23: in create_imaging_studies_for_subject a study whose encounter lookup
\* returned none or raised is still PUT, without an encounter reference.
C23_EncounterFailureIsNonFatal ==
    \A st \in DOMAIN lastImport.studies :
        (lastImport.studies[st].lookup \in {"none", "raises"} /\ ~lastImport.dry_run)
            => lastImport.studies[st].put /\ lastImport.studies[st].encounter_id = <<>>

\* C25: after populate_data on an empty graph there is one entity 'diabetes
\* mellitus type 2', of type CONDITION, with relationships treated_by ->
\* metformin, presents_with -> polyuria, affects -> pancreas, diagnosed_by ->
\* HbA1c test and comorbid_with -> hypertension, each to the only entity row
\* with that text.
C25_DiabetesSubgraph ==
    popPc = "done" =>
        LET RowsOf(text) == {k \in 1..Len(entities) : entities[k].EntityText = text}
            Edge(rel_type, text) ==
                /\ Cardinality(RowsOf(text)) = 1
                /\ \E s \in RowsOf("diabetes mellitus type 2"), t \in RowsOf(text),
                      k \in 1..Len(relationships) :
                        /\ relationships[k].SourceEntityID = entities[s].EntityID
                        /\ relationships[k].TargetEntityID = entities[t].EntityID
                        /\ relationships[k].RelationshipType = rel_type
        IN  /\ Cardinality(RowsOf("diabetes mellitus type 2")) = 1
            /\ \A s \in RowsOf("diabetes mellitus type 2") :
                  entities[s].EntityType = "CONDITION"
            /\ Edge("treated_by", "metformin")
            /\ Edge("presents_with", "polyuria")
            /\ Edge("affects", "pancreas")
            /\ Edge("diagnosed_by", "HbA1c test")
            /\ Edge("comorbid_with", "hypertension")

\* populate_data has returned after inserting the entities of all conditions
C25_Witness ==
    /\ popPc = "done"
    /\ Len(entities) = entities_added
    /\ Len(relationships) = relationships_added
    /\ Len(entities) > 100

\* C26: at the start of query at most 3 items are recalled; the memory block of
\* the user prompt lists exactly the recalled items whose similarity is above
\* 0.3, in the order of the recall; no other item of the memory is in the prompt.
C26_OnlySimilarMemoriesInPrompt ==
    chatPc # "init" =>
        LET content == messages[1].content
            PosIn(seq, x) == {p \in 1..Len(seq) : seq[p] = x}
            RecalledTexts == {memories[k].text : k \in 1..Len(memories)}
        IN  /\ Len(memories) <= 3
            /\ \A m \in CandidateMemories :
                  PosIn(content, m.text) # {} <=>
                      (m \in memory_store /\ m.text \in RecalledTexts /\ m.similarity > 30)
            /\ \A j, k \in 1..Len(memories) :
                  (j < k /\ memories[j].similarity > 30 /\ memories[k].similarity > 30)
                      => \A p \in PosIn(content, memories[j].text),
                            q \in PosIn(content, memories[k].text) : p < q
            /\ \A m \in CandidateMemories : Cardinality(PosIn(content, m.text)) <= 1

\* four items are in the memory, one of the three recalled is at the threshold
C26_Witness ==
    /\ chatPc = "llm"
    /\ Cardinality(memory_store) >= 4
    /\ Len(memories) = 3
    /\ memories[3].similarity = 30
    /\ Len(messages[1].content) = 5

C28_ExitCodeMatchesReport ==
    healthPc = "exited" =>
        /\ exit_code \in {0, 1}
        /\ exit_code = 0 <=> /\ ~checks_raise
                             /\ \A k \in 1..Len(check_results) : check_results[k] = "pass"
                             /\ ~(smoke_test_arg /\ smoke_raises)
        /\ report_status = "pass" <=> exit_code = 0

\* all checks passed and the requested smoke test failed: exit code 1, report 'fail'
C28_Witness ==
    /\ healthPc = "exited"
    /\ Len(check_results) = MaxChecks
    /\ \A k \in 1..Len(check_results) : check_results[k] = "pass"
    /\ smoke_test_arg /\ smoke_raises /\ ~checks_raise
    /\ exit_code = 1 /\ report_status = "fail"

\* C29: two clients with different session identity (they never sent the same
\* X-Session-Id header; clients that send no header and no cookie included) never
\* use the same bot, and the conversation memory behind a reply to one of them
\* never holds a turn of the other.
C29_SessionsNeverShareABot ==
    \A c, d \in Clients :
        (c # d /\ headersSent[c] \cap headersSent[d] = {}) =>
            /\ flask_session[c].sid = "none" \/ flask_session[c].sid # flask_session[d].sid
            /\ d \notin replyMemory[c]

\* C30: when two populate runs work on the same tables at the same time, in
\* every interleaving of their SELECT and INSERT statements no two rows of
\* RAG.Entities have the same (EntityText, EntityType) and no two rows of
\* RAG.EntityRelationships have the same (source, target, type).
C30_UniqueUnderConcurrentRuns ==
    /\ \A k, m \in 1..Len(entities) :
           (entities[k].EntityText = entities[m].EntityText
            /\ entities[k].EntityType = entities[m].EntityType) => k = m
    /\ \A k, m \in 1..Len(relationships) :
           (/\ relationships[k].SourceEntityID = relationships[m].SourceEntityID
            /\ relationships[k].TargetEntityID = relationships[m].TargetEntityID
            /\ relationships[k].RelationshipType = relationships[m].RelationshipType) => k = m

\* C31: every tool call of query that returned a result has a trace entry
\* carrying its iteration and tool name, and the result text of every trace
\* entry is at most 500 characters long.
C31_EveryToolCallTracedWithin500 ==
    /\ Len(trace) = Len(tool_results)
    /\ \A k \in 1..Len(trace) :
           /\ trace[k].name = tool_results[k]
           /\ trace[k].length <= 500

\* C32: find_dicom_files returns only files with the .dcm suffix, never a file
\* larger than 100 MiB, and at most `limit` files whenever a limit is given.
C32_OnlySmallDicomFilesUpToLimit ==
    findPc = "returned" =>
        /\ \A k \in 1..Len(dicom_files) :
               dicom_files[k].dcm /\ dicom_files[k].size <= 100 * 1024 * 1024
        /\ limit_arg # NoLimit => Len(dicom_files) <= limit_arg

\* C33: for a file on a canonical path .../pXX/pXXXXXXXX/sXXXXXXXX/{image_id}.dcm,
\* whatever directories precede it, subject_id is the pXXXXXXXX directory,
\* study_id the sXXXXXXXX directory below it and image_id the file name without
\* .dcm.
C33_CanonicalPathGivesItsIds ==
    (/\ metadata # NoMetadata
     /\ Len(dcm_path) >= 4
     /\ SubSeq(dcm_path, Len(dcm_path) - 3, Len(dcm_path) - 1) = CanonicalDirs) =>
        /\ metadata.subject_id = "p10000032"
        /\ metadata.study_id = "s50000001"
        /\ metadata.image_id = dcm_path[Len(dcm_path)].text

\* C34: a dry run of ingestion leaves the recovery state unchanged: no step of
\* it inserts a row, performs a FHIR operation or changes the set of image ids
\* the checkpoint file holds (a process stopped inside save_checkpoint apart).
C34_DryRunLeavesRecoveryStateUnchanged ==
    [][(dry_run /\ ~ckptFile'.torn) =>
          /\ table' = table
          /\ fhirStudies' = fhirStudies /\ putLog' = putLog
          /\ LoadCheckpoint(ckptFile') = LoadCheckpoint(ckptFile)]_vars

\* C35: an image id enters the checkpoint set only if its row was inserted:
\* every image id that a non-dry run adds to the persisted checkpoint has a row
\* in the image table.
C35_CheckpointedImagesHaveARow ==
    [][(pc # "idle" /\ ~dry_run /\ ckptFile' # ckptFile /\ ~ckptFile'.torn) =>
          (ckptFile'.ids \ loaded_ids) \subseteq ExistingIds(table')]_vars

\* C36: repeated runs with a fixed limit N >= 1 and skip_existing=True over an
\* unchanging source make progress: after finitely many runs every discovered
\* image has a row.
C36_EveryImageEventuallyIngested == <>(IdsOf(tree) \subseteq image_rows)

\* C37: across successive runs over the same source, with either value of
\* skip_existing, the checkpoint file never loses an image id: the set saved at
\* the end of a run holds the set that was on disk before.
C37_CheckpointFileNeverLosesAnId == [][checkpoint_ids \subseteq checkpoint_ids']_vars

C39_AnswerIsLastMessage ==
    (chatPc = "done" /\ emitted = "assistant") =>
        /\ messages # <<>>
        /\ messages[Len(messages)].role = "assistant"

====
